---------------------------- MODULE Spec2Model ----------------------------
(***************************************************************************)
(* ORCA local avoidance of FaabB/auto-battle-1:                            *)
(*   src/src/gameplay/units/avoidance/orca.rs          (ORCA math core)    *)
(*   src/src/gameplay/units/avoidance/spatial_hash.rs  (spatial index)     *)
(*   src/src/gameplay/units/avoidance/mod.rs           (per-tick driver)   *)
(*                                                                         *)
(* Numbers.  The code computes in f32.  The model computes in fixed point: *)
(* an integer n stands for the number n / Scale, and every multiplication, *)
(* division and square root rounds its exact result to the nearest grid    *)
(* value (ties away from zero), as an f32 operation rounds its exact       *)
(* result to the nearest float.  A fused multiply-add rounds once.         *)
(* Additions and subtractions of grid values are exact.  f32::EPSILON, the *)
(* smallest step of the float grid at 1.0, is the step of this grid.       *)
(*                                                                         *)
(* Units.  Lengths are in units of 10 px and times in seconds, so that the *)
(* squares of the game's distances fit TLC's 32-bit integers: the unit     *)
(* radius 6 px is 0.6, the unit speed 50 px/s is 5.0, the 0.1 px tolerance *)
(* of the tests is 0.01.                                                   *)
(***************************************************************************)
EXTENDS Integers, Sequences, FiniteSets, TLC

Scale == 10 * 10 * 10

\* f32::EPSILON: one step of the grid.
EPSILON == 1

Abs(n) == IF n < 0 THEN -n ELSE n
Sgn(n) == IF n < 0 THEN -1 ELSE IF n > 0 THEN 1 ELSE 0
Min(a, b) == IF a <= b THEN a ELSE b
Max(a, b) == IF a >= b THEN a ELSE b

\* j + rem/Scale (0 <= rem < Scale) rounded to the nearest integer, ties away
\* from zero.
RoundFrac(j, rem) ==
    IF 2 * rem > Scale \/ (2 * rem = Scale /\ j >= 0) THEN j + 1 ELSE j

\* i + f/Scale rounded to the nearest integer.
RoundAt(i, f) == RoundFrac(i + (f \div Scale), f % Scale)

\* s * lo * hi / Scale + c, rounded once (s the sign, lo <= hi magnitudes).
MulAddSM(s, lo, hi, c) ==
    RoundAt(c + s * lo * (hi \div Scale), s * lo * (hi % Scale))

\* f32::mul_add(a, b, c): a * b + c with one rounding.
MulAdd(a, b, c) ==
    MulAddSM(Sgn(a) * Sgn(b), Min(Abs(a), Abs(b)), Max(Abs(a), Abs(b)), c)

\* a * b, rounded.
Mul(a, b) == MulAdd(a, b, 0)

\* The integer n / d rounded to the nearest integer, ties away from zero.
RDiv(n, d) ==
    IF (n < 0) # (d < 0)
    THEN -((2 * Abs(n) + Abs(d)) \div (2 * Abs(d)))
    ELSE (2 * Abs(n) + Abs(d)) \div (2 * Abs(d))

\* a / b, rounded (b # 0).
Div(a, b) == RDiv(a * Scale, b)

\* The largest r in lo..hi with r * r <= n.
RECURSIVE ISqrtBS(_, _, _)
ISqrtBS(n, lo, hi) ==
    IF lo >= hi THEN lo
    ELSE IF ((lo + hi + 1) \div 2) * ((lo + hi + 1) \div 2) <= n
         THEN ISqrtBS(n, (lo + hi + 1) \div 2, hi)
         ELSE ISqrtBS(n, lo, ((lo + hi + 1) \div 2) - 1)

SqrtRound(n, r) == IF n - r * r > r THEN r + 1 ELSE r

\* f32::sqrt(a) for a >= 0, rounded to the nearest grid value.
Sqrt(a) == SqrtRound(a * Scale, ISqrtBS(a * Scale, 0, Min(a * Scale, 46340)))

\* f32::clamp(t, lo, hi) with lo <= hi.
Clamp(t, lo, hi) == IF t < lo THEN lo ELSE IF t > hi THEN hi ELSE t

---------------------------------------------------------------------------
\* Vec2 (glam): a pair <<x, y>>.

ZERO == <<0, 0>>
VAdd(a, b) == <<a[1] + b[1], a[2] + b[2]>>
VSub(a, b) == <<a[1] - b[1], a[2] - b[2]>>
VNeg(a) == <<-a[1], -a[2]>>
VScale(s, v) == <<Mul(s, v[1]), Mul(s, v[2])>>
VDivS(v, s) == <<Div(v[1], s), Div(v[2], s)>>
Dot(a, b) == Mul(a[1], b[1]) + Mul(a[2], b[2])
LengthSquared(v) == Dot(v, v)
Length(v) == Sqrt(LengthSquared(v))
Normalize(v) == VDivS(v, Length(v))
NormalizeBy(v, len) == IF len = 0 THEN ZERO ELSE VDivS(v, len)
NormalizeOrZero(v) == NormalizeBy(v, Length(v))
LerpSnap(a, b, s) == b

\* Vec2::lerp: self * (1.0 - s) + rhs * s.
Lerp(a, b, s) == VAdd(VScale(Scale - s, a), VScale(s, b))

\* 2D cross product.
det(a, b) == MulAdd(a[1], b[2], -Mul(a[2], b[1]))

---------------------------------------------------------------------------
\* OrcaLine and Option<OrcaLine>.

OrcaLine(p, d) == [point |-> p, direction |-> d]
NoLine == [some |-> FALSE, point |-> ZERO, direction |-> ZERO]
SomeLine(p, d) == [some |-> TRUE, point |-> p, direction |-> d]

OnCutoffCircleAlways(dot_product_1, combined_radius_sq, w_length_sq) == TRUE

\* on_cutoff_circle.
OnCutoffCircle(dot_product_1, combined_radius_sq, w_length_sq) ==
    /\ dot_product_1 < 0
    /\ Mul(dot_product_1, dot_product_1) > Mul(combined_radius_sq, w_length_sq)

CutoffLineUFullShare(a, unit_w, u_length) ==
    SomeLine(VAdd(a.velocity, VScale(u_length, unit_w)), <<unit_w[2], -unit_w[1]>>)

\* The line of the cut-off circle branch, from unit_w and the length of u.
CutoffLineU(a, unit_w, u_length) ==
    SomeLine(VAdd(a.velocity, VScale(a.responsibility, VScale(u_length, unit_w))),
             <<unit_w[2], -unit_w[1]>>)

\* The cut-off circle branch.
CutoffLine(a, w, w_length, combined_radius, inv_time_horizon) ==
    IF w_length < EPSILON THEN NoLine
    ELSE CutoffLineU(a, VDivS(w, w_length),
                     MulAdd(combined_radius, inv_time_horizon, -w_length))

LeftLegDirection(rel_pos, leg, combined_radius, dist_sq) ==
    VDivS(<<MulAdd(rel_pos[1], leg, -Mul(rel_pos[2], combined_radius)),
            MulAdd(rel_pos[1], combined_radius, Mul(rel_pos[2], leg))>>, dist_sq)

RightLegDirection(rel_pos, leg, combined_radius, dist_sq) ==
    VNeg(VDivS(<<MulAdd(rel_pos[1], leg, Mul(rel_pos[2], combined_radius)),
                 MulAdd(-rel_pos[1], combined_radius, Mul(rel_pos[2], leg))>>,
               dist_sq))

LegLineFullShare(a, rel_vel, direction) ==
    SomeLine(VAdd(a.velocity, VSub(VScale(Dot(rel_vel, direction), direction), rel_vel)),
             direction)

\* The line of a leg branch, from the leg's direction.
LegLine(a, rel_vel, direction) ==
    SomeLine(VAdd(a.velocity,
                  VScale(a.responsibility,
                         VSub(VScale(Dot(rel_vel, direction), direction), rel_vel))),
             direction)

NotOverlappingOrTangent(dist_sq, combined_radius_sq) ==
    dist_sq >= combined_radius_sq /\ dist_sq > 0

\* The test that the agents are not overlapping.
NotOverlapping(dist_sq, combined_radius_sq) == dist_sq > combined_radius_sq

\* compute_orca_line from the overlap test on.
OrcaLineBranches(a, rel_pos, rel_vel, combined_radius, inv_time_horizon, dist_sq, combined_radius_sq, w) ==
    IF NotOverlapping(dist_sq, combined_radius_sq)
    THEN IF OnCutoffCircle(Dot(w, rel_pos), combined_radius_sq, LengthSquared(w))
         THEN CutoffLine(a, w, Sqrt(LengthSquared(w)), combined_radius,
                         inv_time_horizon)
         ELSE IF det(rel_pos, w) > 0
              THEN LegLine(a, rel_vel,
                           LeftLegDirection(rel_pos,
                                            Sqrt(dist_sq - combined_radius_sq),
                                            combined_radius, dist_sq))
              ELSE LegLine(a, rel_vel,
                           RightLegDirection(rel_pos,
                                             Sqrt(dist_sq - combined_radius_sq),
                                             combined_radius, dist_sq))
    ELSE NoLine

OrcaLineFromNoneOnZeroW(a, rel_pos, rel_vel, combined_radius, inv_time_horizon) ==
    IF Sqrt(LengthSquared(VSub(rel_vel, VScale(inv_time_horizon, rel_pos)))) < EPSILON
    THEN NoLine
    ELSE OrcaLineBranches(a, rel_pos, rel_vel, combined_radius, inv_time_horizon,
                          LengthSquared(rel_pos),
                          Mul(combined_radius, combined_radius),
                          VSub(rel_vel, VScale(inv_time_horizon, rel_pos)))

\* compute_orca_line from its first five bindings on.
OrcaLineFrom(a, rel_pos, rel_vel, combined_radius, inv_time_horizon) ==
    OrcaLineBranches(a, rel_pos, rel_vel, combined_radius, inv_time_horizon,
                     LengthSquared(rel_pos),
                     Mul(combined_radius, combined_radius),
                     VSub(rel_vel, VScale(inv_time_horizon, rel_pos)))

compute_orca_lineStatic(a, b, time_horizon) ==
    OrcaLineFrom(a, VSub(b.position, a.position), a.velocity,
                 a.radius + b.radius, Div(Scale, time_horizon))

compute_orca_line(a, b, time_horizon) ==
    OrcaLineFrom(a, VSub(b.position, a.position), VSub(a.velocity, b.velocity),
                 a.radius + b.radius, Div(Scale, time_horizon))

---------------------------------------------------------------------------
\* The linear programs.  Sequences are 1-based; the fail index returned by
\* linear_program_2 stays 0-based as in the code (Len(lines) means success).

NoVec == [some |-> FALSE, v |-> ZERO]
SomeVec(v) == [some |-> TRUE, v |-> v]
Clipped(ok, t_left, t_right) == [ok |-> ok, t_left |-> t_left, t_right |-> t_right]

RECURSIVE LP1Clip(_, _, _, _, _)

\* The end of one iteration over a prior line: None once the interval is
\* empty.
LP1ClipCheck(lines, line_idx, k, t_left, t_right) ==
    IF t_left > t_right THEN Clipped(FALSE, t_left, t_right)
    ELSE LP1Clip(lines, line_idx, k + 1, t_left, t_right)

\* One iteration over the prior line k, from denominator and numerator.
LP1ClipPrior(lines, line_idx, k, t_left, t_right, denominator, numerator) ==
    IF Abs(denominator) <= EPSILON
    THEN IF numerator < 0 THEN Clipped(FALSE, t_left, t_right)
         ELSE LP1Clip(lines, line_idx, k + 1, t_left, t_right)
    ELSE IF denominator >= 0
         THEN LP1ClipCheck(lines, line_idx, k, t_left,
                           Min(t_right, Div(numerator, denominator)))
         ELSE LP1ClipCheck(lines, line_idx, k,
                           Max(t_left, Div(numerator, denominator)), t_right)

\* The loop of linear_program_1 over the prior lines k..line_idx-1: the
\* clipped interval, or ok = FALSE where the code returns None.
LP1Clip(lines, line_idx, k, t_left, t_right) ==
    IF k >= line_idx THEN Clipped(TRUE, t_left, t_right)
    ELSE LP1ClipPrior(lines, line_idx, k, t_left, t_right,
             det(lines[line_idx].direction, lines[k].direction),
             det(lines[k].direction,
                 VSub(lines[line_idx].point, lines[k].point)))

\* Mutant of LP1Optimize: t is not clamped to the clipped interval.
LP1OptimizeUnclamped(line, opt_velocity, direction_opt, clip) ==
    IF ~clip.ok THEN NoVec
    ELSE SomeVec(VAdd(line.point,
             VScale(IF direction_opt
                    THEN Dot(line.direction, opt_velocity)
                    ELSE Dot(line.direction, VSub(opt_velocity, line.point)),
                    line.direction)))

\* The end of linear_program_1: the optimal t on the clipped interval.
LP1Optimize(line, opt_velocity, direction_opt, clip) ==
    IF ~clip.ok THEN NoVec
    ELSE SomeVec(VAdd(line.point,
             VScale(Clamp(IF direction_opt
                          THEN Dot(line.direction, opt_velocity)
                          ELSE Dot(line.direction, VSub(opt_velocity, line.point)),
                          clip.t_left, clip.t_right),
                    line.direction)))

LP1Interval(lines, line_idx, dot_product, sqrt_discriminant) ==
    LP1Clip(lines, line_idx, 1, -dot_product - sqrt_discriminant,
            -dot_product + sqrt_discriminant)

LP1Discriminant(lines, line_idx, opt_velocity, direction_opt, dot_product, discriminant) ==
    IF discriminant < 0 THEN NoVec
    ELSE LP1Optimize(lines[line_idx], opt_velocity, direction_opt,
                     LP1Interval(lines, line_idx, dot_product, Sqrt(discriminant)))

LP1From(lines, line_idx, opt_velocity, max_speed, direction_opt, dot_product) ==
    LP1Discriminant(lines, line_idx, opt_velocity, direction_opt, dot_product,
        MulAdd(dot_product, dot_product,
               MulAdd(max_speed, max_speed,
                      -LengthSquared(lines[line_idx].point))))

linear_program_1(lines, line_idx, opt_velocity, max_speed, direction_opt) ==
    LP1From(lines, line_idx, opt_velocity, max_speed, direction_opt,
            Dot(lines[line_idx].point, lines[line_idx].direction))

\* Mutant of LP2Seed: the preferred velocity is not clamped to the disc.
LP2SeedUnclamped(opt_velocity, max_speed, direction_opt) ==
    IF direction_opt THEN VScale(max_speed, NormalizeOrZero(opt_velocity))
    ELSE opt_velocity

\* The initial candidate of linear_program_2_impl.
LP2Seed(opt_velocity, max_speed, direction_opt) ==
    IF direction_opt THEN VScale(max_speed, NormalizeOrZero(opt_velocity))
    ELSE IF LengthSquared(opt_velocity) > Mul(max_speed, max_speed)
         THEN VScale(max_speed, Normalize(opt_velocity))
    ELSE opt_velocity

LP2Kept(result) == [result |-> result, failed |-> FALSE]

\* if let Some(new_result) = linear_program_1(..) { .. } else { return .. }
LP2Reoptimized(result, new_result) ==
    IF new_result.some THEN LP2Kept(new_result.v)
    ELSE [result |-> result, failed |-> TRUE]

\* Mutant of LP2Iter: a violated line does not move the candidate.
LP2IterKeeps(lines, i, result, opt_velocity, max_speed, direction_opt) ==
    LP2Kept(result)

\* One iteration of the loop of linear_program_2_impl, on line i.
LP2Iter(lines, i, result, opt_velocity, max_speed, direction_opt) ==
    IF det(lines[i].direction, VSub(lines[i].point, result)) > 0
    THEN LP2Reoptimized(result,
             linear_program_1(lines, i, opt_velocity, max_speed, direction_opt))
    ELSE LP2Kept(result)

RECURSIVE LP2Loop(_, _, _, _, _, _)

LP2Continue(lines, i, opt_velocity, max_speed, direction_opt, it) ==
    IF it.failed THEN [result |-> it.result, fail |-> i - 1]
    ELSE LP2Loop(lines, i + 1, it.result, opt_velocity, max_speed, direction_opt)

\* The loop of linear_program_2_impl from line i on.
LP2Loop(lines, i, result, opt_velocity, max_speed, direction_opt) ==
    IF i > Len(lines) THEN [result |-> result, fail |-> Len(lines)]
    ELSE LP2Continue(lines, i, opt_velocity, max_speed, direction_opt,
             LP2Iter(lines, i, result, opt_velocity, max_speed, direction_opt))

linear_program_2_impl(lines, opt_velocity, max_speed, direction_opt) ==
    LP2Loop(lines, 1, LP2Seed(opt_velocity, max_speed, direction_opt),
            opt_velocity, max_speed, direction_opt)

linear_program_2(lines, opt_velocity, max_speed) ==
    linear_program_2_impl(lines, opt_velocity, max_speed, FALSE)

\* What linear_program_3 pushes on projected_lines for the prior line j.
ProjectedLine(li, lj, determinant) ==
    IF Abs(determinant) <= EPSILON
    THEN IF Dot(li.direction, lj.direction) > 0 THEN <<>>
         ELSE <<OrcaLine(VScale(Scale \div 2, VAdd(li.point, lj.point)),
                         NormalizeOrZero(VSub(lj.direction, li.direction)))>>
    ELSE <<OrcaLine(VAdd(li.point,
                         VScale(Div(det(lj.direction, VSub(li.point, lj.point)),
                                    determinant),
                                li.direction)),
                    NormalizeOrZero(VSub(lj.direction, li.direction)))>>

\* projected_lines of linear_program_3 for line i, from the prior line j on.
RECURSIVE ProjectedLines(_, _, _)
ProjectedLines(lines, i, j) ==
    IF j >= i THEN <<>>
    ELSE ProjectedLine(lines[i], lines[j],
                       det(lines[i].direction, lines[j].direction))
         \o ProjectedLines(lines, i, j + 1)

LP3Measured(line, result) ==
    [result |-> result,
     distance |-> det(line.direction, VSub(line.point, result))]

\* if det(..new_result) > distance { result = new_result }, then distance.
LP3Keep(line, result, distance, new_result) ==
    IF det(line.direction, VSub(line.point, new_result)) > distance
    THEN LP3Measured(line, new_result)
    ELSE LP3Measured(line, result)

\* One iteration of the loop of linear_program_3, on line i.
LP3Iter(lines, i, result, distance, max_speed) ==
    IF det(lines[i].direction, VSub(lines[i].point, result)) <= distance
    THEN [result |-> result, distance |-> distance]
    ELSE LP3Keep(lines[i], result, distance,
             linear_program_2_impl(ProjectedLines(lines, i, 1),
                                   <<-lines[i].direction[2], lines[i].direction[1]>>,
                                   max_speed, TRUE).result)

RECURSIVE LP3Loop(_, _, _, _, _)

LP3Continue(lines, i, max_speed, it) ==
    LP3Loop(lines, i + 1, it.result, it.distance, max_speed)

LP3Loop(lines, i, result, distance, max_speed) ==
    IF i > Len(lines) THEN result
    ELSE LP3Continue(lines, i, max_speed,
                     LP3Iter(lines, i, result, distance, max_speed))

linear_program_3(lines, fail_line, current, max_speed) ==
    LP3Loop(lines, fail_line + 1, current, 0, max_speed)

CavFallback(lines, max_speed, lp2) ==
    IF lp2.fail < Len(lines)
    THEN linear_program_3(lines, lp2.fail, lp2.result, max_speed)
    ELSE lp2.result

compute_avoiding_velocity(preferred, max_speed, lines) ==
    CavFallback(lines, max_speed, linear_program_2(lines, preferred, max_speed))

---------------------------------------------------------------------------
\* State.

VARIABLES
    \* compute_avoiding_velocity in progress: its arguments, the loop it is in
    \* ("start", "lp2", "lp3", "done", or "idle" when not in use), the loop
    \* index (1-based), the candidate, the fail index and LP3's distance.
    lpLines, lpOpt, lpMax, lpPc, lpI, lpResult, lpFail, lpDistance,
    \* compute_orca_line: its arguments, its position ("call", "done" or
    \* "idle") and the Option<OrcaLine> it returned.
    lnA, lnB, lnHorizon, lnPc, lnLine,
    \* SpatialHash::cells: a function from cell coordinates to the bucket, a
    \* sequence of entities.
    cells,
    \* A SpatialHash in use: its cell_size, the (entity, position) pairs
    \* inserted since the last clear(), the number of clear() calls, where its
    \* user is ("open", "queried" or "idle"), and the arguments and the
    \* result of the query_neighbors call.
    hCellSize, hInserted, hClears, hPc, hQuery, hRadius, hResult,
    \* The Movement set of one frame.  Per unit: GlobalTransform translation,
    \* LinearVelocity and PreferredVelocity; the units matched by the query
    \* of compute_avoidance; the locals snapshots and results of
    \* compute_avoidance, the number of results written back, and the system
    \* the frame is at ("movement", "rebuild", "snapshot", "avoid", "done" or
    \* "idle").
    position, velocity, preferred, queried, snapshots, results, written, tickPc,
    \* The candidate loop of compute_avoidance for one agent: the snapshots,
    \* config.max_neighbors, the agent's entity, where the loop is ("call",
    \* "gathered" or "idle") and the lines it built.
    gSnaps, gMax, gEntity, gPc, gLines,
    \* The Unit entities of the world between frames: the ones that exist,
    \* their positions, and whether the hash was rebuilt since the last
    \* change ("changed", "rebuilt" or "idle").
    wAlive, wPos, wPc,
    \* Two agents facing each other: their snapshots, where the solve is
    \* ("call", "solved" or "idle") and the velocity solved for each.
    hoA, hoB, hoPc, hoSolvedA, hoSolvedB,
    \* One agent against one neighbour, solved twice: the two snapshots, where
    \* the solve is ("call", "solved" or "idle"), and the velocity solved with
    \* responsibility 1.0 and with responsibility 0.0.
    rsA, rsB, rsPc, rsFull, rsNone,
    \* An agent with responsibility 0.0 among its neighbours: its snapshot,
    \* the snapshots of the neighbours, where the solve is ("call", "solved" or
    \* "idle"), the lines built and the velocity written.
    nyA, nyOthers, nyPc, nyLines, nyWritten,
    \* The divisions of one solve: the agent, its neighbours, where the solve is
    \* ("call", "solved" or "idle"), the lines built, and the divisions executed,
    \* each a pair of the name of the divisor in the code and its value.
    dvA, dvOthers, dvPc, dvLines, dvDivisors,
    \* The smoothing of one solve: the agent, its neighbour,
    \* config.velocity_smoothing, where the solve is ("call", "written" or
    \* "idle"), the lines built, orca_vel and the velocity written.
    smA, smOther, smSmoothing, smPc, smLines, smSolved, smWritten,
    \* The Update schedule over some frames: State<GameState> and State<Menu>,
    \* the number of the frame, where the frame is ("transition", "condition",
    \* "run", "end" or "idle"), the systems of the Movement chain that are
    \* executing, those that finished in this frame in order, the frames in which
    \* the preferred velocities and the hash were last written, and the frames of
    \* the preferred velocities and the hash compute_avoidance last read.
    scGame, scMenu, scFrame, scPc, scActive, scRan, scWrote, scRead,
    \* A pair of agents of one snapshot: the two agents, where the pair is
    \* ("call", "done" or "idle"), and the lines compute_orca_line returned for
    \* (a, b) and for (b, a).
    rcA, rcB, rcPc, rcAB, rcBA

lpVars == <<lpLines, lpOpt, lpMax, lpPc, lpI, lpResult, lpFail, lpDistance>>
lnVars == <<lnA, lnB, lnHorizon, lnPc, lnLine>>
hVars == <<hCellSize, hInserted, hClears, hPc, hQuery, hRadius, hResult>>
tickVars == <<position, velocity, preferred, queried, snapshots, results,
              written, tickPc>>

gVars == <<gSnaps, gMax, gEntity, gPc, gLines>>

wVars == <<wAlive, wPos, wPc>>

hoVars == <<hoA, hoB, hoPc, hoSolvedA, hoSolvedB>>

rsVars == <<rsA, rsB, rsPc, rsFull, rsNone>>

nyVars == <<nyA, nyOthers, nyPc, nyLines, nyWritten>>

dvVars == <<dvA, dvOthers, dvPc, dvLines, dvDivisors>>

smVars == <<smA, smOther, smSmoothing, smPc, smLines, smSolved, smWritten>>

scVars == <<scGame, scMenu, scFrame, scPc, scActive, scRan, scWrote, scRead>>

rcVars == <<rcA, rcB, rcPc, rcAB, rcBA>>

vars == <<lpVars, lnVars, cells, hVars, tickVars, gVars, wVars, hoVars, rsVars, nyVars, dvVars, smVars, scVars, rcVars>>

\* The parts of the state a specification does not use.
LpIdle ==
    /\ lpLines = <<>> /\ lpOpt = <<0, 0>> /\ lpMax = 0 /\ lpPc = "idle"
    /\ lpI = 1 /\ lpResult = <<0, 0>> /\ lpFail = 0 /\ lpDistance = 0

LnIdle ==
    /\ lnA = <<>> /\ lnB = <<>> /\ lnHorizon = 0 /\ lnPc = "idle"
    /\ lnLine = <<>>

HashIdle ==
    /\ hCellSize = 0 /\ hInserted = <<>> /\ hClears = 0 /\ hPc = "idle"
    /\ hQuery = <<0, 0>> /\ hRadius = 0 /\ hResult = <<>>

TickIdle ==
    /\ position = <<>> /\ velocity = <<>> /\ preferred = <<>>
    /\ queried = {} /\ snapshots = <<>> /\ results = <<>> /\ written = 0
    /\ tickPc = "idle"

GatherIdle ==
    /\ gSnaps = <<>> /\ gMax = 0 /\ gEntity = 0 /\ gPc = "idle"
    /\ gLines = <<>>

WorldIdle == wAlive = {} /\ wPos = <<>> /\ wPc = "idle"

HeadOnIdle ==
    /\ hoA = <<>> /\ hoB = <<>> /\ hoPc = "idle" /\ hoSolvedA = ZERO
    /\ hoSolvedB = ZERO

RespIdle ==
    rsA = <<>> /\ rsB = <<>> /\ rsPc = "idle" /\ rsFull = ZERO /\ rsNone = ZERO

NeverIdle ==
    nyA = <<>> /\ nyOthers = <<>> /\ nyPc = "idle" /\ nyLines = <<>> /\ nyWritten = ZERO

DivIdle ==
    dvA = <<>> /\ dvOthers = <<>> /\ dvPc = "idle" /\ dvLines = <<>> /\ dvDivisors = {}

SmoothIdle ==
    smA = <<>> /\ smOther = <<>> /\ smSmoothing = 0 /\ smPc = "idle" /\ smLines = <<>> /\ smSolved = ZERO /\ smWritten = ZERO

SchedIdle ==
    scGame = "" /\ scMenu = "" /\ scFrame = 0 /\ scPc = "idle" /\ scActive = {} /\ scRan = <<>> /\ scWrote = <<0, 0>> /\ scRead = <<0, 0>>

PairIdle ==
    rcA = <<>> /\ rcB = <<>> /\ rcPc = "idle" /\ rcAB = NoLine /\ rcBA = NoLine

---------------------------------------------------------------------------
\* compute_avoiding_velocity, one loop iteration per step.

\* The tolerance of result_within_max_speed: 0.1 px.
Tolerance == Scale \div 100

\* Longest list of lines handed to the solver.
MaxLines == 3

\* Unit directions whose coordinates are grid values.
East == <<Scale, 0>>
West == <<-Scale, 0>>
North == <<0, Scale>>
South == <<0, -Scale>>

\* The lines the solver is tried on: the half-planes x >= 2 and x <= -2 of
\* lp3_infeasible_minimizes_violation (scaled by 1/10), x >= -1, y >= 1 and
\* y >= -2, and two oblique lines, one through the origin.
LpLineSet ==
    { OrcaLine(<<2 * Scale, 0>>, South),
      OrcaLine(<<-2 * Scale, 0>>, North),
      OrcaLine(<<-Scale, -6 * Scale>>, South),
      OrcaLine(<<0, Scale>>, East),
      OrcaLine(<<-3 * Scale, -2 * Scale>>, East),
      OrcaLine(ZERO, <<600, 800>>),
      OrcaLine(<<Scale, Scale>>, <<-800, 600>>) }

\* Preferred velocities: zero, one inside and one outside the largest disc.
LpPreferred == { ZERO, <<-3 * Scale, 4 * Scale>>, <<8 * Scale, -6 * Scale>> }

LpMaxSpeeds == { 0, 2 * Scale, 5 * Scale }

\* The sequences over S of length at most n.
SeqsUpTo(S, n) == UNION { [1..k -> S] : k \in 0..n }

LpInit ==
    /\ lpLines \in SeqsUpTo(LpLineSet, MaxLines)
    /\ lpOpt \in LpPreferred
    /\ lpMax \in LpMaxSpeeds
    /\ lpPc = "start"
    /\ lpI = 1
    /\ lpResult = ZERO
    /\ lpFail = 0
    /\ lpDistance = 0
    /\ LnIdle /\ HashIdle /\ TickIdle /\ GatherIdle /\ WorldIdle /\ HeadOnIdle /\ RespIdle /\ NeverIdle /\ DivIdle /\ SmoothIdle /\ SchedIdle /\ PairIdle
    /\ cells = <<>>

\* linear_program_2_impl: the initial candidate.
LpSeed ==
    /\ lpPc = "start"
    /\ lpResult' = LP2Seed(lpOpt, lpMax, FALSE)
    /\ lpPc' = "lp2"
    /\ UNCHANGED <<lpLines, lpOpt, lpMax, lpI, lpFail, lpDistance>>
    /\ UNCHANGED <<lnVars, cells, hVars, tickVars, gVars, wVars, hoVars, rsVars, nyVars, dvVars, smVars, scVars, rcVars>>

\* linear_program_2_impl: the loop body on line lpI.
Lp2Step ==
    /\ lpPc = "lp2"
    /\ lpI <= Len(lpLines)
    /\ \E it \in { LP2Iter(lpLines, lpI, lpResult, lpOpt, lpMax, FALSE) } :
           IF it.failed
           THEN /\ lpFail' = lpI - 1
                /\ lpPc' = "lp3"
                /\ UNCHANGED <<lpResult, lpI>>
           ELSE /\ lpResult' = it.result
                /\ lpI' = lpI + 1
                /\ UNCHANGED <<lpFail, lpPc>>
    /\ UNCHANGED <<lpLines, lpOpt, lpMax, lpDistance>>
    /\ UNCHANGED <<lnVars, cells, hVars, tickVars, gVars, wVars, hoVars, rsVars, nyVars, dvVars, smVars, scVars, rcVars>>

\* linear_program_2_impl ran through every line: fail index = lines.len().
Lp2Success ==
    /\ lpPc = "lp2"
    /\ lpI > Len(lpLines)
    /\ lpFail' = Len(lpLines)
    /\ lpPc' = "done"
    /\ UNCHANGED <<lpLines, lpOpt, lpMax, lpI, lpResult, lpDistance>>
    /\ UNCHANGED <<lnVars, cells, hVars, tickVars, gVars, wVars, hoVars, rsVars, nyVars, dvVars, smVars, scVars, rcVars>>

\* linear_program_3: the loop body on line lpI.
Lp3Step ==
    /\ lpPc = "lp3"
    /\ lpI <= Len(lpLines)
    /\ \E it \in { LP3Iter(lpLines, lpI, lpResult, lpDistance, lpMax) } :
           /\ lpResult' = it.result
           /\ lpDistance' = it.distance
    /\ lpI' = lpI + 1
    /\ UNCHANGED <<lpLines, lpOpt, lpMax, lpPc, lpFail>>
    /\ UNCHANGED <<lnVars, cells, hVars, tickVars, gVars, wVars, hoVars, rsVars, nyVars, dvVars, smVars, scVars, rcVars>>

Lp3Return ==
    /\ lpPc = "lp3"
    /\ lpI > Len(lpLines)
    /\ lpPc' = "done"
    /\ UNCHANGED <<lpLines, lpOpt, lpMax, lpI, lpResult, lpFail, lpDistance>>
    /\ UNCHANGED <<lnVars, cells, hVars, tickVars, gVars, wVars, hoVars, rsVars, nyVars, dvVars, smVars, scVars, rcVars>>

LpNext == LpSeed \/ Lp2Step \/ Lp2Success \/ Lp3Step \/ Lp3Return

SpecLP == LpInit /\ [][LpNext]_vars

\* |v| <= r, computed exactly.
WithinDisc(v, r) == v[1] * v[1] + v[2] * v[2] <= r * r

\* The largest signed violation of v over the lines k..Len(lines), and at
\* least floor.
RECURSIVE MaxViolationFrom(_, _, _, _)
MaxViolationFrom(lines, k, v, floor) ==
    IF k > Len(lines) THEN floor
    ELSE MaxViolationFrom(lines, k + 1, v,
             Max(floor, det(lines[k].direction, VSub(lines[k].point, v))))

\* The stepwise run returns what the operator returns.
LpStepwiseAgrees ==
    lpPc = "done" => lpResult = compute_avoiding_velocity(lpOpt, lpMax, lpLines)

\* C1: the velocity compute_avoiding_velocity returns lies in the max_speed
\* disc, within the 0.1 tolerance, whether linear_program_2 succeeded or the
\* linear_program_3 fallback ran.
C1_DiscContainment ==
    lpPc = "done" => WithinDisc(lpResult, lpMax + Tolerance)

\* C1 witness: the fallback ran on contradictory lines and returned.
C1_Witness ==
    /\ lpPc = "done"
    /\ lpFail < Len(lpLines)
    /\ lpMax > 0

\* The velocities of the max_speed disc on a grid of step 0.5.
CandidateVelocities(max_speed) ==
    { v \in { <<x * (Scale \div 2), y * (Scale \div 2)>> :
                  x \in -10..10, y \in -10..10 } : WithinDisc(v, max_speed) }

\* C9: when linear_program_2 failed, the velocity returned has the least
\* largest signed violation det(direction_k, point_k - v) over the lines,
\* among the velocities of the max_speed disc (compared, up to the
\* tolerance, with the disc's velocities on a grid of step 0.5).
C9_MinimisesMaxViolation ==
    (lpPc = "done" /\ lpFail < Len(lpLines)) =>
        \A v \in CandidateVelocities(lpMax) :
            MaxViolationFrom(lpLines, 1, lpResult, -100 * Scale)
                <= MaxViolationFrom(lpLines, 1, v, -100 * Scale) + Tolerance

\* The candidate satisfies the lines 1..n: det(direction_k, point_k - v) is
\* at most slack for each.
SatisfiesUpTo(lines, n, v, slack) ==
    \A k \in 1..n : det(lines[k].direction, VSub(lines[k].point, v)) <= slack

\* C10 as stated: when linear_program_2 reports success the velocity has
\* det(direction_i, point_i - v) <= 0 for every line i and lies in the
\* max_speed disc, and after line i the candidate satisfies the lines 0..i.
C10_ExactHalfPlanes ==
    /\ lpPc = "lp2" => SatisfiesUpTo(lpLines, lpI - 1, lpResult, 0)
    /\ (lpPc = "done" /\ lpFail = Len(lpLines)) =>
           /\ SatisfiesUpTo(lpLines, Len(lpLines), lpResult, 0)
           /\ WithinDisc(lpResult, lpMax)

\* C10 amended: the same up to the rounding of the arithmetic, within the
\* 0.1 px tolerance: det(direction_i, point_i - v) <= 0.1 for every line i
\* and |v| <= max_speed + 0.1.
C10_HalfPlanesWithinTolerance ==
    /\ lpPc = "lp2" => SatisfiesUpTo(lpLines, lpI - 1, lpResult, Tolerance)
    /\ (lpPc = "done" /\ lpFail = Len(lpLines)) =>
           /\ SatisfiesUpTo(lpLines, Len(lpLines), lpResult, Tolerance)
           /\ WithinDisc(lpResult, lpMax + Tolerance)

\* C10 witness: linear_program_2 succeeded on three lines after moving the
\* candidate off the preferred velocity.
C10_Witness ==
    /\ lpPc = "done"
    /\ lpFail = Len(lpLines)
    /\ Len(lpLines) = 3
    /\ lpResult # LP2Seed(lpOpt, lpMax, FALSE)

\* The squared distance of two points, computed exactly.
ExactDistSq(p, q) ==
    (p[1] - q[1]) * (p[1] - q[1]) + (p[2] - q[2]) * (p[2] - q[2])

\* The distance of p and q, rounded down to the grid.
ExactDist(p, q) == ISqrtBS(ExactDistSq(p, q), 0, 46340)

\* v is at most slack farther from target than w is.
NoFartherThan(v, w, target, slack) ==
    ExactDistSq(v, target)
        <= (ExactDist(w, target) + 1 + slack) * (ExactDist(w, target) + 1 + slack)

\* C11: when some velocity of the max_speed disc satisfies every line,
\* compute_avoiding_velocity returns a velocity that satisfies every line
\* and is no farther from preferred than any such velocity (both within the
\* 0.1 px tolerance, compared with the disc's velocities on a grid of step
\* 0.5); and when preferred clamped to the disc satisfies every line, it is
\* returned unchanged.
C11_ClosestFeasible ==
    lpPc = "done" =>
        /\ \A v \in CandidateVelocities(lpMax) :
               SatisfiesUpTo(lpLines, Len(lpLines), v, 0) =>
                   /\ SatisfiesUpTo(lpLines, Len(lpLines), lpResult, Tolerance)
                   /\ NoFartherThan(lpResult, v, lpOpt, Tolerance)
        /\ SatisfiesUpTo(lpLines, Len(lpLines), LP2Seed(lpOpt, lpMax, FALSE), 0)
               => lpResult = LP2Seed(lpOpt, lpMax, FALSE)

\* Three lines with a feasible velocity in the disc moved the result away
\* from the clamped preferred velocity.
C11_Witness ==
    /\ lpPc = "done"
    /\ Len(lpLines) = 3
    /\ lpMax > 0
    /\ \E v \in CandidateVelocities(lpMax) :
           SatisfiesUpTo(lpLines, Len(lpLines), v, 0)
    /\ lpResult # LP2Seed(lpOpt, lpMax, FALSE)
    /\ SatisfiesUpTo(lpLines, Len(lpLines), lpResult, Tolerance)

---------------------------------------------------------------------------
\* compute_orca_line on a pair of agents.

AgentSnapshot(p, v, pref, r, max_speed, resp) ==
    [position |-> p, velocity |-> v, preferred |-> pref, radius |-> r,
     max_speed |-> max_speed, responsibility |-> resp]

\* UNIT_RADIUS (6 px), Movement::speed (50 px/s) and the default
\* responsibility (0.5).
UNIT_RADIUS == (6 * Scale) \div 10
MoveSpeed == 5 * Scale
Responsibility == Scale \div 2

\* Where the second agent is put: on the first, overlapping it, touching it
\* (12 px away along an axis and along a 3-4-5 diagonal), 1 px clear of it,
\* 30 px away on either axis, and 50 px and 300 px ahead (where a relative
\* velocity of 50 px/s, or of almost 100 px/s, ends on the centre of the
\* cut-off circle or one grid step short of it).
LinePositions ==
    { ZERO, <<UNIT_RADIUS, 0>>, <<2 * UNIT_RADIUS, 0>>, <<720, 960>>,
      <<2 * UNIT_RADIUS + 100, 0>>, <<3 * Scale, 0>>, <<0, -3 * Scale>>,
      <<5 * Scale, 0>>, <<30 * Scale, 0>> }

LineVelocities ==
    { ZERO, <<MoveSpeed, 0>>, <<-MoveSpeed, 0>>, <<0, MoveSpeed>>,
      <<11 - MoveSpeed, 0>> }

LineRadii == { 0, UNIT_RADIUS }

LineResponsibilities == { Responsibility, Scale }

LineHorizons == { Scale, 3 * Scale }

LineInit ==
    /\ \E va \in LineVelocities, ra \in LineRadii, resp \in LineResponsibilities :
           lnA = AgentSnapshot(ZERO, va, va, ra, MoveSpeed, resp)
    /\ \E pb \in LinePositions, vb \in LineVelocities, rb \in LineRadii :
           lnB = AgentSnapshot(pb, vb, vb, rb, MoveSpeed, Responsibility)
    /\ lnHorizon \in LineHorizons
    /\ lnPc = "call"
    /\ lnLine = NoLine
    /\ LpIdle /\ HashIdle /\ TickIdle /\ GatherIdle /\ WorldIdle /\ HeadOnIdle /\ RespIdle /\ NeverIdle /\ DivIdle /\ SmoothIdle /\ SchedIdle /\ PairIdle
    /\ cells = <<>>

LineCompute ==
    /\ lnPc = "call"
    /\ lnLine' = compute_orca_line(lnA, lnB, lnHorizon)
    /\ lnPc' = "done"
    /\ UNCHANGED <<lnA, lnB, lnHorizon>>
    /\ UNCHANGED <<lpVars, cells, hVars, tickVars, gVars, wVars, hoVars, rsVars, nyVars, dvVars, smVars, scVars, rcVars>>

LineNext == LineCompute

SpecLine == LineInit /\ [][LineNext]_vars

\* The centre distance of the two agents is at most the sum of their radii.
Touching(a, b) ==
    ExactDistSq(a.position, b.position)
        <= (a.radius + b.radius) * (a.radius + b.radius)

\* C6: compute_orca_line returns None whenever the centre distance of the
\* two agents is at most the sum of their radii (overlap, exact tangency and
\* identical positions included), whatever the velocities, the
\* responsibility and the time horizon.
C6_OverlapReturnsNone ==
    (lnPc = "done" /\ Touching(lnA, lnB)) => lnLine = NoLine

\* An exact tangency of two moving agents was answered.
C6_Witness ==
    /\ lnPc = "done"
    /\ lnB.position = <<720, 960>>
    /\ lnA.radius + lnB.radius = 2 * UNIT_RADIUS
    /\ lnA.velocity # lnB.velocity
    /\ lnLine = NoLine

\* w of compute_orca_line for the pair of the call.
LineW ==
    VSub(VSub(lnA.velocity, lnB.velocity),
         VScale(Div(Scale, lnHorizon), VSub(lnB.position, lnA.position)))

\* The pair of the call passes the test dist_sq > combined_radius_sq.
LineApart ==
    NotOverlapping(LengthSquared(VSub(lnB.position, lnA.position)),
                   Mul(lnA.radius + lnB.radius, lnA.radius + lnB.radius))

\* The pair of the call takes the cut-off circle branch.
LineOnCutoffCircle ==
    OnCutoffCircle(Dot(LineW, VSub(lnB.position, lnA.position)),
                   Mul(lnA.radius + lnB.radius, lnA.radius + lnB.radius),
                   LengthSquared(LineW))

\* C23 as stated: for a non-overlapping pair whose w has zero length,
\* compute_orca_line returns None.
C23_ZeroWReturnsNone ==
    (lnPc = "done" /\ LineApart /\ Sqrt(LengthSquared(LineW)) = 0)
        => lnLine = NoLine

\* C23: for a non-overlapping pair, compute_orca_line returns None exactly
\* when w falls in the cut-off circle branch (w points against rel_pos) and
\* its length is below f32::EPSILON.  A w that is exactly zero fails the
\* branch test dot_product_1 < 0, is projected on the right leg, and a line
\* is returned through a.velocity + responsibility * u.
C23_NoneOnlyOnCutoffCircle ==
    (lnPc = "done" /\ LineApart)
        => /\ lnLine = NoLine
               <=> (LineOnCutoffCircle /\ Sqrt(LengthSquared(LineW)) < EPSILON)
           /\ LineW = ZERO
               => lnLine = LegLine(lnA, VSub(lnA.velocity, lnB.velocity),
                                   lnLine.direction)

\* A line was returned for two units 50 px apart whose w is exactly zero.
C23_Witness ==
    /\ lnPc = "done"
    /\ LineApart
    /\ lnA.radius + lnB.radius = 2 * UNIT_RADIUS
    /\ LineW = ZERO
    /\ lnLine.some
    /\ lnLine.direction # ZERO

\* No line was returned for a pair whose w is one grid step long against
\* rel_pos.
C23_WitnessTinyW ==
    /\ lnPc = "done"
    /\ LineApart
    /\ LineW = <<-1, 0>>
    /\ lnLine = NoLine

---------------------------------------------------------------------------
\* SpatialHash.

\* f32::floor followed by the cast to i32.
Floor(x) == x \div Scale

cell_coords(cell_size, p) ==
    <<Floor(Div(p[1], cell_size)), Floor(Div(p[2], cell_size))>>

\* SpatialHash::new.
NewCells == <<>>

clearFirstBucketOnly(cs) ==
    [c \in DOMAIN cs |-> IF \A d \in DOMAIN cs : c[1] <= d[1] THEN <<>> ELSE cs[c]]

\* SpatialHash::clear: every bucket is emptied, the keys stay.
clear(cs) == [c \in DOMAIN cs |-> <<>>]

\* cells.entry(coords).or_default().push(entity).
PushEntity(cs, coords, entity) ==
    [c \in DOMAIN cs \cup {coords} |->
        IF c = coords
        THEN IF c \in DOMAIN cs THEN Append(cs[c], entity) ELSE <<entity>>
        ELSE cs[c]]

insert(cs, cell_size, entity, p) ==
    PushEntity(cs, cell_coords(cell_size, p), entity)

BucketHead(cs, c) ==
    IF c \in DOMAIN cs /\ cs[c] # <<>> THEN <<cs[c][1]>> ELSE <<>>

\* self.cells.get(&(x, y)), an absent bucket read as empty.
Bucket(cs, c) == IF c \in DOMAIN cs THEN cs[c] ELSE <<>>

CellRangeExclusive(lo, hi) == lo .. (hi - 1)

\* The range lo..=hi of a loop of query_neighbors.
CellRange(lo, hi) == lo .. hi

\* The inner loop of query_neighbors, from row y on.
RECURSIVE QueryColumn(_, _, _, _, _, _)
QueryColumn(cs, x, y, min, max, result) ==
    IF y \in CellRange(min[2], max[2])
    THEN QueryColumn(cs, x, y + 1, min, max, result \o Bucket(cs, <<x, y>>))
    ELSE result

\* The outer loop of query_neighbors, from column x on.
RECURSIVE QueryRows(_, _, _, _, _)
QueryRows(cs, x, min, max, result) ==
    IF x \in CellRange(min[1], max[1])
    THEN QueryRows(cs, x + 1, min, max,
                   QueryColumn(cs, x, min[2], min, max, result))
    ELSE result

QueryBetweenWide(cs, min, max) ==
    QueryRows(cs, min[1] - 2, <<min[1] - 2, min[2]>>, <<max[1] + 2, max[2]>>, <<>>)

\* The two loops of query_neighbors over the cells min ..= max.
QueryBetween(cs, min, max) == QueryRows(cs, min[1], min, max, <<>>)

query_neighbors_padded(cs, cell_size, p, radius) ==
    QueryBetween(cs, cell_coords(cell_size, VSub(p, <<radius + cell_size, radius + cell_size>>)),
                 cell_coords(cell_size, VAdd(p, <<radius + cell_size, radius + cell_size>>)))

\* SpatialHash::query_neighbors
query_neighbors(cs, cell_size, p, radius) ==
    QueryBetween(cs, cell_coords(cell_size, VSub(p, <<radius, radius>>)),
                 cell_coords(cell_size, VAdd(p, <<radius, radius>>)))

\* Most insert calls made on the hash.
MaxInserts == 2

HashEntities == 1 .. MaxInserts

\* The cell size of the tests of spatial_hash.rs (50 px).
HashCellSize == 5 * Scale

\* Positions on cell boundaries (multiples of the cell size, one of them
\* negative), inside cells on either side of the origin, and in a far cell.
HashPositions ==
    { <<-HashCellSize, 0>>, <<-Scale, -2500>>, ZERO, <<HashCellSize, 0>>,
      <<HashCellSize, HashCellSize>>, <<12 * Scale, -100>> }

\* Query points on either side of the boundaries and inside cells.
HashQueryPoints ==
    { <<-5100, 0>>, <<-4900, 0>>, <<4900, 0>>, <<5100, 0>>, <<0, -100>>,
      <<2 * Scale, 4 * Scale>> }

HashRadii == { 0, 100, 500, 8 * Scale }

\* The entities inserted since the last clear().
InsertedEntities(inserted) == { inserted[k][1] : k \in DOMAIN inserted }

HashInit ==
    /\ cells = NewCells
    /\ hCellSize = HashCellSize
    /\ hInserted = <<>>
    /\ hClears = 0
    /\ hPc = "open"
    /\ hQuery = ZERO
    /\ hRadius = 0
    /\ hResult = <<>>
    /\ LpIdle /\ LnIdle /\ TickIdle /\ GatherIdle /\ WorldIdle /\ HeadOnIdle /\ RespIdle /\ NeverIdle /\ DivIdle /\ SmoothIdle /\ SchedIdle /\ PairIdle

\* hash.clear()
HashClear ==
    /\ hPc = "open"
    /\ hClears < MaxInserts
    /\ cells' = clear(cells)
    /\ hInserted' = <<>>
    /\ hClears' = hClears + 1
    /\ UNCHANGED <<hCellSize, hPc, hQuery, hRadius, hResult>>
    /\ UNCHANGED <<lpVars, lnVars, tickVars, gVars, wVars, hoVars, rsVars, nyVars, dvVars, smVars, scVars, rcVars>>

\* hash.insert(entity, p)
HashInsert ==
    /\ hPc = "open"
    /\ Len(hInserted) < MaxInserts
    /\ \E entity \in HashEntities \ InsertedEntities(hInserted),
          p \in HashPositions :
           /\ cells' = insert(cells, hCellSize, entity, p)
           /\ hInserted' = Append(hInserted, <<entity, p>>)
    /\ UNCHANGED <<hCellSize, hClears, hPc, hQuery, hRadius, hResult>>
    /\ UNCHANGED <<lpVars, lnVars, tickVars, gVars, wVars, hoVars, rsVars, nyVars, dvVars, smVars, scVars, rcVars>>

\* hash.query_neighbors(q, radius)
HashQuery ==
    /\ hPc = "open"
    /\ \E q \in HashQueryPoints, radius \in HashRadii :
           /\ hQuery' = q
           /\ hRadius' = radius
           /\ hResult' = query_neighbors(cells, hCellSize, q, radius)
    /\ hPc' = "queried"
    /\ UNCHANGED <<cells, hCellSize, hInserted, hClears>>
    /\ UNCHANGED <<lpVars, lnVars, tickVars, gVars, wVars, hoVars, rsVars, nyVars, dvVars, smVars, scVars, rcVars>>

HashNext == HashClear \/ HashInsert \/ HashQuery

SpecHash == HashInit /\ [][HashNext]_vars

\* e is an element of the sequence seq.
Contains(seq, e) == \E k \in DOMAIN seq : seq[k] = e

\* C3: after clear() and any inserts, query_neighbors(q, r) contains every
\* inserted entity whose position is within distance r of q (no false
\* negatives), positions with negative coordinates and positions on a cell
\* boundary included.
C3_NoFalseNegatives ==
    hPc = "queried" =>
        \A k \in DOMAIN hInserted :
            ExactDistSq(hQuery, hInserted[k][2]) <= hRadius * hRadius
                => Contains(hResult, hInserted[k][1])

\* The entities inserted since the last clear() into the cell of point q.
InsertedInCellOf(inserted, cell_size, q) ==
    { inserted[k][1] : k \in { j \in DOMAIN inserted : cell_coords(cell_size, inserted[j][2]) = cell_coords(cell_size, q) } }

\* Some entity was inserted since the last clear() at point q.
InsertedAt(inserted, q) == \E k \in DOMAIN inserted : inserted[k][2] = q

\* C17 as stated: a query of radius 0 at a point where no agent was inserted
\* returns no identifier.
C17_RadiusZeroEmptyOffAgents ==
    (hPc = "queried" /\ hRadius = 0 /\ ~InsertedAt(hInserted, hQuery))
        => hResult = <<>>

\* C17: a query of radius 0 returns the identifiers inserted into the cell
\* of the query point, whatever their distance: it returns none exactly when
\* no agent was inserted into that cell.
C17_RadiusZeroReturnsCell ==
    (hPc = "queried" /\ hRadius = 0) =>
        /\ { hResult[j] : j \in DOMAIN hResult } = InsertedInCellOf(hInserted, hCellSize, hQuery)
        /\ Len(hResult) = Cardinality(InsertedInCellOf(hInserted, hCellSize, hQuery))

\* A query of radius 0 at a point where no agent was inserted returned an
\* agent of the same cell, while the other agent, in another cell, was left
\* out.
C17_Witness ==
    /\ hPc = "queried" /\ hRadius = 0
    /\ ~InsertedAt(hInserted, hQuery)
    /\ Len(hInserted) = 2
    /\ Len(hResult) = 1

\* A query made while nothing was inserted since the last clear() is empty.
EmptyUntilInsert == (hPc = "queried" /\ hInserted = <<>>) => hResult = <<>>

\* A clear() step leaves cell_size alone and every query empty.
ClearStep ==
    hClears' # hClears =>
        /\ hCellSize' = hCellSize
        /\ \A q \in HashQueryPoints \cup HashPositions, radius \in HashRadii :
               query_neighbors(cells', hCellSize', q, radius) = <<>>

\* C18: after clear() every query_neighbors, for any point and radius,
\* returns an empty list until the next insert, and cell_size is unchanged.
C18_ClearEmptiesHash == []EmptyUntilInsert /\ [][ClearStep]_vars

\* A hash with two used buckets was cleared and then queried with the
\* radius that had covered both.
C18_Witness ==
    /\ hPc = "queried" /\ hClears > 0 /\ hInserted = <<>>
    /\ Cardinality(DOMAIN cells) = 2
    /\ hRadius = 8 * Scale
    /\ hCellSize = HashCellSize

\* After a clear() that emptied a used bucket, an entity on the negative
\* cell boundary was found from the adjacent cell, within the radius.
C3_Witness ==
    /\ hPc = "queried"
    /\ hClears > 0
    /\ DOMAIN cells # {}
    /\ hQuery = <<-5100, 0>>
    /\ hRadius = 100
    /\ \E k \in DOMAIN hInserted :
           /\ hInserted[k][2] = <<-HashCellSize, 0>>
           /\ Contains(hResult, hInserted[k][1])

\* insert called for the pairs k .. Len(inserted), in that order.
RECURSIVE InsertAll(_, _, _, _)
InsertAll(cs, cell_size, inserted, k) ==
    IF k > Len(inserted) THEN cs
    ELSE InsertAll(insert(cs, cell_size, inserted[k][1], inserted[k][2]),
                   cell_size, inserted, k + 1)

\* The same (entity, position) pairs in the opposite order.
Reversed(inserted) ==
    [k \in DOMAIN inserted |-> inserted[Len(inserted) + 1 - k]]

\* The identifiers of a returned list, as a set.
SetOf(seq) == { seq[k] : k \in DOMAIN seq }

\* The cell c is one of the cells min ..= max on both axes.
CellBetween(c, min, max) ==
    /\ min[1] <= c[1] /\ c[1] <= max[1]
    /\ min[2] <= c[2] /\ c[2] <= max[2]

\* The identifiers among a set of (id, position) pairs whose cell a query
\* (p, radius) visits.
IdsInQueriedCells(pairs, cell_size, p, radius) ==
    { pair[1] : pair \in
        { q \in pairs :
            CellBetween(cell_coords(cell_size, q[2]),
                        cell_coords(cell_size, VSub(p, <<radius, radius>>)),
                        cell_coords(cell_size, VAdd(p, <<radius, radius>>))) } }

\* The set returned is a function of the set of pairs inserted since the
\* last clear(), whatever the order they were inserted in.
QueryOrderFree ==
    hPc = "queried" =>
        SetOf(hResult)
            = IdsInQueriedCells(SetOf(hInserted), hCellSize, hQuery, hRadius)

\* The same query made again returns the same list.
QueryRepeatable ==
    hPc = "queried" =>
        query_neighbors(cells, hCellSize, hQuery, hRadius) = hResult

\* A query_neighbors step leaves the hash as it was.
QueryStep ==
    hPc' # hPc => cells' = cells /\ hCellSize' = hCellSize /\ hInserted' = hInserted

\* C25: the set of identifiers returned by query_neighbors(point, radius)
\* depends only on the set of (id, position) pairs inserted since the last
\* clear(): it is the same for every insertion order and for a repeated
\* query, and a query does not change the hash.
C25_QueryDependsOnInsertedSet ==
    []QueryOrderFree /\ []QueryRepeatable /\ [][QueryStep]_vars

\* Two entities inserted into one cell after a clear() were returned in the
\* order of insertion; inserted in the other order they are returned in the
\* other order.
C25_Witness ==
    /\ hPc = "queried"
    /\ hClears > 0
    /\ Len(hInserted) = 2
    /\ cell_coords(hCellSize, hInserted[1][2]) = cell_coords(hCellSize, hInserted[2][2])
    /\ hResult = <<hInserted[1][1], hInserted[2][1]>>
    /\ query_neighbors(InsertAll(NewCells, hCellSize, Reversed(hInserted), 1),
                       hCellSize, hQuery, hRadius)
           = <<hInserted[2][1], hInserted[1][1]>>

---------------------------------------------------------------------------
\* The Movement set of a frame: unit_movement, rebuild_spatial_hash and
\* compute_avoidance, chained.

\* AvoidanceConfig::default().
DEFAULT_TIME_HORIZON == 3 * Scale
DEFAULT_MAX_NEIGHBORS == 10
DEFAULT_VELOCITY_SMOOTHING == (85 * Scale) \div 100
NeighborDistance == 15 * Scale

\* Number of units.
NAgents == 2

Agents == 1 .. NAgents

\* The snapshot of unit e.
SnapshotOf(e, pos, vel, pref) ==
    <<e, AgentSnapshot(pos[e], vel[e], pref[e], UNIT_RADIUS, MoveSpeed,
                       Responsibility)>>

\* Phase 1: the units matched by the query, in entity order, from unit e on.
RECURSIVE SnapshotsFrom(_, _, _, _, _)
SnapshotsFrom(e, q, pos, vel, pref) ==
    IF e > NAgents THEN <<>>
    ELSE IF e \in q
         THEN <<SnapshotOf(e, pos, vel, pref)>>
                  \o SnapshotsFrom(e + 1, q, pos, vel, pref)
         ELSE SnapshotsFrom(e + 1, q, pos, vel, pref)

\* index_map.get(&entity): the 1-based slot of the entity, 0 for None.
RECURSIVE IndexFrom(_, _, _)
IndexFrom(snaps, entity, k) ==
    IF k > Len(snaps) THEN 0
    ELSE IF snaps[k][1] = entity THEN k
         ELSE IndexFrom(snaps, entity, k + 1)

index_map(snaps, entity) == IndexFrom(snaps, entity, 1)

RECURSIVE GatherLines(_, _, _, _, _, _, _, _)

\* The end of the loop body on a known candidate: the line, if any, is
\* pushed and counted.
GatherPush(snaps, entity, agent, candidates, k, lines, neighbor_count, max_neighbors, line) ==
    IF line.some
    THEN GatherLines(snaps, entity, agent, candidates, k + 1,
                     Append(lines, OrcaLine(line.point, line.direction)),
                     neighbor_count + 1, max_neighbors)
    ELSE GatherLines(snaps, entity, agent, candidates, k + 1, lines,
                     neighbor_count, max_neighbors)

\* Mutant of GatherKnown: a candidate missing from the index map is counted
\* as a neighbour.
GatherKnownCounting(snaps, entity, agent, candidates, k, lines, neighbor_count, max_neighbors, idx) ==
    IF idx = 0
    THEN GatherLines(snaps, entity, agent, candidates, k + 1, lines,
                     neighbor_count + 1, max_neighbors)
    ELSE GatherPush(snaps, entity, agent, candidates, k, lines, neighbor_count,
                    max_neighbors,
                    compute_orca_line(agent, snaps[idx][2],
                                      DEFAULT_TIME_HORIZON))

\* The loop body from the index_map lookup on.
GatherKnown(snaps, entity, agent, candidates, k, lines, neighbor_count, max_neighbors, idx) ==
    IF idx = 0
    THEN GatherLines(snaps, entity, agent, candidates, k + 1, lines,
                     neighbor_count, max_neighbors)
    ELSE GatherPush(snaps, entity, agent, candidates, k, lines, neighbor_count,
                    max_neighbors,
                    compute_orca_line(agent, snaps[idx][2],
                                      DEFAULT_TIME_HORIZON))

CapReachedLate(neighbor_count, max_neighbors) == neighbor_count > max_neighbors

\* The test that ends the loop once max_neighbors lines are built.
CapReached(neighbor_count, max_neighbors) == neighbor_count >= max_neighbors

GatherLinesCountingSelf(snaps, entity, agent, candidates, k, lines, neighbor_count, max_neighbors) ==
    IF k > Len(candidates) THEN lines
    ELSE IF CapReached(neighbor_count, max_neighbors) THEN lines
         ELSE IF candidates[k] = entity
              THEN GatherLines(snaps, entity, agent, candidates, k + 1, lines,
                               neighbor_count + 1, max_neighbors)
              ELSE GatherKnown(snaps, entity, agent, candidates, k, lines,
                               neighbor_count, max_neighbors,
                               index_map(snaps, candidates[k]))

\* The loop over the candidates, from candidate k on.
GatherLines(snaps, entity, agent, candidates, k, lines, neighbor_count, max_neighbors) ==
    IF k > Len(candidates) THEN lines
    ELSE IF candidates[k] = entity
         THEN GatherLines(snaps, entity, agent, candidates, k + 1, lines,
                          neighbor_count, max_neighbors)
         ELSE IF CapReached(neighbor_count, max_neighbors) THEN lines
              ELSE GatherKnown(snaps, entity, agent, candidates, k, lines,
                               neighbor_count, max_neighbors,
                               index_map(snaps, candidates[k]))

\* The ORCA lines of the agent in slot k.
LinesOf(cs, snaps, k) ==
    GatherLines(snaps, snaps[k][1], snaps[k][2],
                query_neighbors(cs, NeighborDistance, snaps[k][2].position,
                                NeighborDistance),
                1, <<>>, 0, DEFAULT_MAX_NEIGHBORS)

(***************************************************************************)
(* Two agents facing each other on the x axis: each builds its line        *)
(* against the other and solves for its velocity.                          *)
(***************************************************************************)

\* Where the second agent stands: 20, 30 and 40 px ahead of the first, and
\* 30 px ahead with 1 px to either side.
HeadOnPositions ==
    { <<2 * Scale, 0>>, <<3 * Scale, 0>>, <<4 * Scale, 0>>, <<3 * Scale, 100>>,
      <<3 * Scale, -100>> }

\* Speeds of approach: full, half, a fifth, none.
HeadOnSpeeds == { MoveSpeed, MoveSpeed \div 2, Scale, 0 }

HeadOnInit ==
    /\ \E sa \in HeadOnSpeeds :
           hoA = AgentSnapshot(ZERO, <<sa, 0>>, <<sa, 0>>, UNIT_RADIUS, MoveSpeed, Responsibility)
    /\ \E pb \in HeadOnPositions, sb \in HeadOnSpeeds :
           hoB = AgentSnapshot(pb, <<-sb, 0>>, <<-sb, 0>>, UNIT_RADIUS, MoveSpeed, Responsibility)
    /\ hoPc = "call"
    /\ hoSolvedA = ZERO
    /\ hoSolvedB = ZERO
    /\ LpIdle /\ LnIdle /\ HashIdle /\ TickIdle /\ GatherIdle /\ WorldIdle /\ RespIdle /\ NeverIdle /\ DivIdle /\ SmoothIdle /\ SchedIdle /\ PairIdle
    /\ cells = <<>>

\* The line of agent a against agent b, if any, as the list of lines.
LinesAgainst(line) ==
    IF line.some THEN <<OrcaLine(line.point, line.direction)>> ELSE <<>>

\* compute_orca_line for the agent, then compute_avoiding_velocity on its
\* preferred velocity.
SolveAgainst(a, b, time_horizon) ==
    compute_avoiding_velocity(a.preferred, a.max_speed, LinesAgainst(compute_orca_line(a, b, time_horizon)))

HeadOnSolve ==
    /\ hoPc = "call"
    /\ hoSolvedA' = SolveAgainst(hoA, hoB, DEFAULT_TIME_HORIZON)
    /\ hoSolvedB' = SolveAgainst(hoB, hoA, DEFAULT_TIME_HORIZON)
    /\ hoPc' = "solved"
    /\ UNCHANGED <<hoA, hoB>>
    /\ UNCHANGED <<lpVars, lnVars, cells, hVars, tickVars, gVars, wVars, rsVars, nyVars, dvVars, smVars, scVars, rcVars>>

HeadOnNext == HeadOnSolve

SpecHeadOn == HeadOnInit /\ [][HeadOnNext]_vars

\* The configuration of head_on_produces_lateral_avoidance: 30 px apart,
\* both at full speed.
HeadOnCase ==
    /\ hoB.position = <<3 * Scale, 0>>
    /\ hoA.velocity = <<MoveSpeed, 0>>
    /\ hoB.velocity = <<-MoveSpeed, 0>>

\* C20: in the head-on configuration each solved velocity has a lateral
\* component above 0.1 px/s and a speed of at most 50.1 px/s, and neither
\* lateral component is more than twice the other.
C20_HeadOnLateral ==
    (hoPc = "solved" /\ HeadOnCase) =>
        /\ Abs(hoSolvedA[2]) > Tolerance
        /\ Abs(hoSolvedB[2]) > Tolerance
        /\ WithinDisc(hoSolvedA, MoveSpeed + Tolerance)
        /\ WithinDisc(hoSolvedB, MoveSpeed + Tolerance)
        /\ Abs(hoSolvedA[2]) <= 2 * Abs(hoSolvedB[2])
        /\ Abs(hoSolvedB[2]) <= 2 * Abs(hoSolvedA[2])

\* The head-on pair was solved: the agents turned to opposite sides.
C20_Witness ==
    /\ hoPc = "solved" /\ HeadOnCase
    /\ hoSolvedA[2] < 0 /\ hoSolvedB[2] > 0
    /\ hoSolvedA # hoA.preferred /\ hoSolvedB # hoB.preferred

(***************************************************************************)
(* One agent against one neighbour, solved with responsibility 1.0 and     *)
(* with responsibility 0.0 on the same geometry.                           *)
(***************************************************************************)

RespVelocities == { <<MoveSpeed, 0>>, <<-MoveSpeed, 0>>, <<0, MoveSpeed>>, ZERO }

RespPreferred == { <<MoveSpeed, 0>>, <<-MoveSpeed, 0>> }

\* The neighbour stands 30 px ahead, 30 px ahead and 1 px aside, or 20 px
\* ahead and 20 px aside.
RespPositions == { <<3 * Scale, 0>>, <<3 * Scale, 100>>, <<2 * Scale, 2 * Scale>> }

RespInit ==
    /\ \E va \in RespVelocities, pa \in RespPreferred :
           rsA = AgentSnapshot(ZERO, va, pa, UNIT_RADIUS, MoveSpeed, Responsibility)
    /\ \E pb \in RespPositions, vb \in RespVelocities :
           rsB = AgentSnapshot(pb, vb, vb, UNIT_RADIUS, MoveSpeed, Responsibility)
    /\ rsPc = "call"
    /\ rsFull = ZERO
    /\ rsNone = ZERO
    /\ LpIdle /\ LnIdle /\ HashIdle /\ TickIdle /\ GatherIdle /\ WorldIdle /\ HeadOnIdle /\ NeverIdle /\ DivIdle /\ SmoothIdle /\ SchedIdle /\ PairIdle
    /\ cells = <<>>

\* The agent with its responsibility set to r.
WithResponsibility(a, r) == [a EXCEPT !.responsibility = r]

\* a.responsibility = 1.0, then 0.0; each time the line is built and the
\* preferred velocity solved against it.
RespSolve ==
    /\ rsPc = "call"
    /\ rsFull' = SolveAgainst(WithResponsibility(rsA, Scale), rsB, DEFAULT_TIME_HORIZON)
    /\ rsNone' = SolveAgainst(WithResponsibility(rsA, 0), rsB, DEFAULT_TIME_HORIZON)
    /\ rsPc' = "solved"
    /\ UNCHANGED <<rsA, rsB>>
    /\ UNCHANGED <<lpVars, lnVars, cells, hVars, tickVars, gVars, wVars, hoVars, nyVars, dvVars, smVars, scVars, rcVars>>

RespNext == RespSolve

SpecResp == RespInit /\ [][RespNext]_vars

\* The line of the agent with full responsibility leaves its preferred
\* velocity outside the permitted half-plane.
FullLineExcludesPreferred ==
    ~SatisfiesUpTo(LinesAgainst(compute_orca_line(WithResponsibility(rsA, Scale), rsB, DEFAULT_TIME_HORIZON)), 1, rsA.preferred, 0)

GatherUnits == 3

GatherEntities == 1 .. GatherUnits

\* One cell holds the first four positions; the fifth lies in the cell to
\* its left, which a query visits first, and the last in the cell to its
\* right, 250 px and more from the others.
GatherPositions ==
    { ZERO, <<UNIT_RADIUS, 0>>, <<2 * Scale, 0>>, <<4 * Scale, 0>>,
      <<-Scale, 0>>, <<29 * Scale, 0>> }

\* config.max_neighbors.
GatherCaps == { 0, 1, 2, DEFAULT_MAX_NEIGHBORS }

\* The units the compute_avoidance query matches: all of them, or all but one
\* (a Unit in the hash that lacks one of the queried components).
GatherQueried == { GatherEntities } \cup { GatherEntities \ {e} : e \in GatherEntities }

\* Phase 1 over the units e .. GatherUnits in the first tick after they were
\* spawned: at rest, with the preferred velocity unit_movement gave them.
RECURSIVE GatherSnapshots(_, _, _)
GatherSnapshots(e, q, pos) ==
    IF e > GatherUnits THEN <<>>
    ELSE IF e \in q
         THEN <<<<e, AgentSnapshot(pos[e], ZERO, <<MoveSpeed, 0>>, UNIT_RADIUS, MoveSpeed, Responsibility)>>>>
                  \o GatherSnapshots(e + 1, q, pos)
         ELSE GatherSnapshots(e + 1, q, pos)

\* rebuild_spatial_hash over the units e .. GatherUnits.
RECURSIVE GatherRebuild(_, _, _)
GatherRebuild(cs, e, pos) ==
    IF e > GatherUnits THEN cs
    ELSE GatherRebuild(insert(cs, NeighborDistance, e, pos[e]), e + 1, pos)

GatherInit ==
    /\ \E pos \in [GatherEntities -> GatherPositions], q \in GatherQueried :
           /\ cells = GatherRebuild(clear(NewCells), 1, pos)
           /\ gSnaps = GatherSnapshots(1, q, pos)
           /\ gEntity \in q
    /\ gMax \in GatherCaps
    /\ gPc = "call"
    /\ gLines = <<>>
    /\ LpIdle /\ LnIdle /\ HashIdle /\ TickIdle /\ WorldIdle /\ HeadOnIdle /\ RespIdle /\ NeverIdle /\ DivIdle /\ SmoothIdle /\ SchedIdle /\ PairIdle

\* The slot of the solving agent in the snapshots.
GatherSlot == index_map(gSnaps, gEntity)

\* hash.query_neighbors(agent.position, config.neighbor_distance).
GatherCandidates ==
    query_neighbors(cells, NeighborDistance, gSnaps[GatherSlot][2].position, NeighborDistance)

\* Lines 149-169 of compute_avoidance for the solving agent.
GatherCompute ==
    /\ gPc = "call"
    /\ gLines' = GatherLines(gSnaps, gEntity, gSnaps[GatherSlot][2], GatherCandidates, 1, <<>>, 0, gMax)
    /\ gPc' = "gathered"
    /\ UNCHANGED <<gSnaps, gMax, gEntity, cells>>
    /\ UNCHANGED <<lpVars, lnVars, hVars, tickVars, wVars, hoVars, rsVars, nyVars, dvVars, smVars, scVars, rcVars>>

GatherNext == GatherCompute

SpecGather == GatherInit /\ [][GatherNext]_vars

\* The line of one candidate as a sequence: empty for the agent itself, for a
\* candidate without snapshot and for a pair that yields no line.
LineAsSeq(line) ==
    IF line.some THEN <<OrcaLine(line.point, line.direction)>> ELSE <<>>

CandidateLine(snaps, entity, agent, candidate, idx) ==
    IF candidate = entity \/ idx = 0 THEN <<>>
    ELSE LineAsSeq(compute_orca_line(agent, snaps[idx][2], DEFAULT_TIME_HORIZON))

\* The lines of the candidates k .. Len(candidates), in candidate order.
RECURSIVE ProducedFrom(_, _, _, _, _)
ProducedFrom(snaps, entity, agent, candidates, k) ==
    IF k > Len(candidates) THEN <<>>
    ELSE CandidateLine(snaps, entity, agent, candidates[k], index_map(snaps, candidates[k]))
             \o ProducedFrom(snaps, entity, agent, candidates, k + 1)

FirstOf(seq, n) == SubSeq(seq, 1, Min(n, Len(seq)))

\* C12: the lines of an agent are the first max_neighbors lines its
\* candidates produce, in query_neighbors order (at most max_neighbors of
\* them, and none when max_neighbors is 0).
C12_FirstMaxNeighborsInOrder ==
    gPc = "gathered" =>
        /\ Len(gLines) <= gMax
        /\ gLines = FirstOf(ProducedFrom(gSnaps, gEntity, gSnaps[GatherSlot][2], GatherCandidates, 1), gMax)
        /\ gMax = 0 => gLines = <<>>

\* The cap cut a producing candidate off, and the candidate kept is not the
\* nearest one: the agent's first candidate lies farther than its last.
C12_Witness ==
    /\ gPc = "gathered" /\ gMax = 1 /\ Len(gLines) = 1
    /\ Len(ProducedFrom(gSnaps, gEntity, gSnaps[GatherSlot][2], GatherCandidates, 1)) = 2
    /\ Len(gSnaps) = GatherUnits /\ gEntity = 1
    /\ ExactDistSq(gSnaps[2][2].position, gSnaps[1][2].position)
           > ExactDistSq(gSnaps[3][2].position, gSnaps[1][2].position)
    /\ gLines = CandidateLine(gSnaps, 1, gSnaps[1][2], 2, 2)

\* The candidates that have a snapshot, in candidate order.
RECURSIVE KnownFrom(_, _, _)
KnownFrom(snaps, candidates, k) ==
    IF k > Len(candidates) THEN <<>>
    ELSE IF index_map(snaps, candidates[k]) = 0
         THEN KnownFrom(snaps, candidates, k + 1)
         ELSE <<candidates[k]>> \o KnownFrom(snaps, candidates, k + 1)

\* Some candidate before slot k has no snapshot.
UnknownBefore(snaps, candidates, k) ==
    \E j \in 1 .. (k - 1) : index_map(snaps, candidates[j]) = 0

\* C15: a candidate without an entry in the snapshot index changes nothing:
\* the agent's lines are those the loop builds when such candidates are
\* taken out of the candidate list (no line, no count toward max_neighbors,
\* and the candidates after it are still processed).
C15_UnknownCandidateSkipped ==
    gPc = "gathered" =>
        gLines = GatherLines(gSnaps, gEntity, gSnaps[GatherSlot][2], KnownFrom(gSnaps, GatherCandidates, 1), 1, <<>>, 0, gMax)

\* An unknown candidate comes before a known one whose line fills the cap
\* of one line.
C15_Witness ==
    /\ gPc = "gathered" /\ gMax = 1 /\ Len(gLines) = 1
    /\ \E k \in DOMAIN GatherCandidates :
           /\ UnknownBefore(gSnaps, GatherCandidates, k)
           /\ gLines = CandidateLine(gSnaps, gEntity, gSnaps[GatherSlot][2], GatherCandidates[k], index_map(gSnaps, GatherCandidates[k]))

\* The candidates from k on that are no farther from the agent than
\* config.neighbor_distance, with those that have no snapshot.
RECURSIVE NearFrom(_, _, _, _)
NearFrom(snaps, agent, candidates, k) ==
    IF k > Len(candidates) THEN <<>>
    ELSE IF /\ index_map(snaps, candidates[k]) # 0
            /\ ExactDistSq(snaps[index_map(snaps, candidates[k])][2].position,
                           agent.position)
                   > NeighborDistance * NeighborDistance
         THEN NearFrom(snaps, agent, candidates, k + 1)
         ELSE <<candidates[k]>> \o NearFrom(snaps, agent, candidates, k + 1)

\* C27: every line built for an agent comes from a neighbour whose distance
\* to the agent is at most neighbor_distance: the lines are those the loop
\* builds when the candidates farther away are taken out of the list
\* query_neighbors returned.
C27_LinesOnlyFromNear ==
    gPc = "gathered" =>
        gLines = GatherLines(gSnaps, gEntity, gSnaps[GatherSlot][2],
                     NearFrom(gSnaps, gSnaps[GatherSlot][2], GatherCandidates, 1),
                     1, <<>>, 0, gMax)

\* The candidates from k on without the entries of the entity.
RECURSIVE WithoutSelf(_, _, _)
WithoutSelf(candidates, entity, k) ==
    IF k > Len(candidates) THEN <<>>
    ELSE IF candidates[k] = entity THEN WithoutSelf(candidates, entity, k + 1)
    ELSE <<candidates[k]>> \o WithoutSelf(candidates, entity, k + 1)

\* The candidates from k on with two entries of the entity before each of
\* them and one at the end.
RECURSIVE SelfBetween(_, _, _)
SelfBetween(candidates, entity, k) ==
    IF k > Len(candidates) THEN <<entity>>
    ELSE <<entity, entity, candidates[k]>> \o SelfBetween(candidates, entity, k + 1)

\* C29: an agent builds no line against itself, and its own entries in the
\* list query_neighbors returned, however many, do not count toward
\* max_neighbors: the lines are those the loop builds when the agent's
\* entries are taken out of the list, and those it builds when the agent is
\* entered twice before every candidate and once more at the end, and none
\* of them is a line of the agent against itself.
C29_SelfNeverCounted ==
    gPc = "gathered" =>
        /\ Contains(GatherCandidates, gEntity)
        /\ gLines = GatherLines(gSnaps, gEntity, gSnaps[GatherSlot][2],
                        WithoutSelf(GatherCandidates, gEntity, 1),
                        1, <<>>, 0, gMax)
        /\ gLines = GatherLines(gSnaps, gEntity, gSnaps[GatherSlot][2],
                        SelfBetween(GatherCandidates, gEntity, 1),
                        1, <<>>, 0, gMax)
        /\ Len(gLines) <= Len(WithoutSelf(GatherCandidates, gEntity, 1))
        /\ compute_orca_line(gSnaps[GatherSlot][2], gSnaps[GatherSlot][2],
                             DEFAULT_TIME_HORIZON) = NoLine

\* The agent came first in the list and max_neighbors is 1: the candidate
\* after it still gave the one line.
C29_Witness ==
    /\ gPc = "gathered" /\ gMax = 1
    /\ GatherCandidates[1] = gEntity
    /\ Len(GatherCandidates) > 1
    /\ Len(gLines) = 1

StationarySkipNever(agent) == FALSE

\* The test that skips ORCA for a stationary agent.
StationarySkip(agent) == LengthSquared(agent.preferred) < EPSILON

SkippedVelocityKept(agent) == agent.velocity

\* The velocity returned for a skipped agent.
SkippedVelocity(agent) == ZERO

SolvedAlwaysSmoothed(agent, lines) ==
    Lerp(agent.velocity,
         compute_avoiding_velocity(agent.preferred, agent.max_speed, lines),
         DEFAULT_VELOCITY_SMOOTHING)

\* The closure of phase 2 from lines.is_empty() on.
Solved(agent, lines) ==
    IF lines = <<>> THEN agent.preferred
    ELSE Lerp(agent.velocity,
              compute_avoiding_velocity(agent.preferred, agent.max_speed, lines),
              DEFAULT_VELOCITY_SMOOTHING)

\* Phase 2: the closure on the agent in slot k.
SolveAgent(cs, snaps, k) ==
    IF StationarySkip(snaps[k][2]) THEN SkippedVelocity(snaps[k][2])
    ELSE Solved(snaps[k][2], LinesOf(cs, snaps, k))

\* rebuild_spatial_hash's loop, from unit e on.
RECURSIVE RebuildFrom(_, _, _)
RebuildFrom(cs, e, pos) ==
    IF e > NAgents THEN cs
    ELSE RebuildFrom(insert(cs, NeighborDistance, e, pos[e]), e + 1, pos)

WriteTargetBySlot(res, snaps, j) == snaps[j][1]

\* Phase 3: the entity a result is written to is the one the result carries.
WriteTarget(res, snaps, j) == res[j][1]

WriteLoopDoneAtFirst(res, n) == n >= Min(1, Len(res))

\* Phase 3: the loop over the results ends when every result was visited.
WriteLoopDone(res, n) == n = Len(res)

WriteReadyEarly(res, snaps) == Len(res) > 0

\* Phase 3 starts once phase 2 has collected a result for every snapshot.
WriteReady(res, snaps) == Len(res) = Len(snaps)

\* Unit positions: one spot, 6 px from it (overlapping), 30 px from it, and
\* 500 px from it (beyond the cells a query visits).
TickPositions == { ZERO, <<UNIT_RADIUS, 0>>, <<3 * Scale, 0>>, <<50 * Scale, 0>> }

\* LinearVelocity at the start of the frame, as the physics step left it:
\* at rest, moving at full speed, and at full speed with a sideways
\* component picked up in a contact (units are dynamic rigid bodies).
TickVelocities == { ZERO, <<-MoveSpeed, 0>>, <<MoveSpeed, MoveSpeed \div 2>> }

\* What unit_movement writes: zero, or a unit direction times the speed.
TickPreferred == { ZERO, <<MoveSpeed, 0>>, <<-MoveSpeed, 0>> }

\* The start of a frame.  The hash is the one built by SpatialHash::new,
\* PreferredVelocity is the default of a spawned unit, and the unit with the
\* largest id may lack the components the query of compute_avoidance asks
\* for.
TickInit ==
    /\ position \in [Agents -> TickPositions]
    /\ velocity \in [Agents -> TickVelocities]
    /\ preferred = [e \in Agents |-> ZERO]
    /\ queried \in { Agents, Agents \ {NAgents} }
    /\ cells = NewCells
    /\ snapshots = <<>>
    /\ results = <<>>
    /\ written = 0
    /\ tickPc = "movement"
    /\ LpIdle /\ LnIdle /\ HashIdle /\ GatherIdle /\ WorldIdle /\ HeadOnIdle /\ RespIdle /\ NeverIdle /\ DivIdle /\ SmoothIdle /\ SchedIdle /\ PairIdle

\* unit_movement: every unit's PreferredVelocity is set.
UnitMovement ==
    /\ tickPc = "movement"
    /\ preferred' \in [Agents -> TickPreferred]
    /\ tickPc' = "rebuild"
    /\ UNCHANGED <<position, velocity, queried, snapshots, results, written>>
    /\ UNCHANGED <<lpVars, lnVars, cells, hVars, gVars, wVars, hoVars, rsVars, nyVars, dvVars, smVars, scVars, rcVars>>

\* rebuild_spatial_hash
RebuildSpatialHash ==
    /\ tickPc = "rebuild"
    /\ cells' = RebuildFrom(clear(cells), 1, position)
    /\ tickPc' = "snapshot"
    /\ UNCHANGED <<position, velocity, preferred, queried, snapshots, results,
                   written>>
    /\ UNCHANGED <<lpVars, lnVars, hVars, gVars, wVars, hoVars, rsVars, nyVars, dvVars, smVars, scVars, rcVars>>

\* compute_avoidance, phase 1.
SnapshotAgents ==
    /\ tickPc = "snapshot"
    /\ snapshots' = SnapshotsFrom(1, queried, position, velocity, preferred)
    /\ results' = <<>>
    /\ written' = 0
    /\ tickPc' = "avoid"
    /\ UNCHANGED <<position, velocity, preferred, queried>>
    /\ UNCHANGED <<lpVars, lnVars, cells, hVars, gVars, wVars, hoVars, rsVars, nyVars, dvVars, smVars, scVars, rcVars>>

\* compute_avoidance, phase 2: the closure on the next snapshot.
SolveNext ==
    /\ tickPc = "avoid"
    /\ Len(results) < Len(snapshots)
    /\ results' = Append(results,
                         <<snapshots[Len(results) + 1][1],
                           SolveAgent(cells, snapshots, Len(results) + 1)>>)
    /\ UNCHANGED <<position, velocity, preferred, queried, snapshots, written,
                   tickPc>>
    /\ UNCHANGED <<lpVars, lnVars, cells, hVars, gVars, wVars, hoVars, rsVars, nyVars, dvVars, smVars, scVars, rcVars>>

\* compute_avoidance, phase 3: the next result is written.
WriteNext ==
    /\ tickPc = "avoid"
    /\ WriteReady(results, snapshots)
    /\ written < Len(results)
    /\ velocity' = [velocity EXCEPT ![WriteTarget(results, snapshots, written + 1)] =
                                        results[written + 1][2]]
    /\ written' = written + 1
    /\ UNCHANGED <<position, preferred, queried, snapshots, results, tickPc>>
    /\ UNCHANGED <<lpVars, lnVars, cells, hVars, gVars, wVars, hoVars, rsVars, nyVars, dvVars, smVars, scVars, rcVars>>

\* compute_avoidance returns.
AvoidanceReturn ==
    /\ tickPc = "avoid"
    /\ Len(results) = Len(snapshots)
    /\ WriteLoopDone(results, written)
    /\ tickPc' = "done"
    /\ UNCHANGED <<position, velocity, preferred, queried, snapshots, results,
                   written>>
    /\ UNCHANGED <<lpVars, lnVars, cells, hVars, gVars, wVars, hoVars, rsVars, nyVars, dvVars, smVars, scVars, rcVars>>

TickNext ==
    \/ UnitMovement
    \/ RebuildSpatialHash
    \/ SnapshotAgents
    \/ SolveNext
    \/ WriteNext
    \/ AvoidanceReturn

SpecTick == TickInit /\ [][TickNext]_vars

(***************************************************************************)
(* Phase 2 in any order: the closure of compute_avoidance is applied to    *)
(* the snapshots in whatever order a parallel map would finish them, each  *)
(* result is buffered with its entity, and phase 3 writes the buffer.      *)
(***************************************************************************)

OrderPositions == { ZERO, <<3 * Scale, 0>> }
OrderVelocities == { ZERO, <<MoveSpeed, MoveSpeed \div 2>> }
OrderPreferred == { <<MoveSpeed, 0>>, <<-MoveSpeed, 0>> }

\* The state of compute_avoidance at the start of phase 2: the hash rebuilt
\* from the positions, the snapshots taken, nothing solved or written.
OrderInit ==
    /\ position \in [Agents -> OrderPositions]
    /\ velocity \in [Agents -> OrderVelocities]
    /\ preferred \in [Agents -> OrderPreferred]
    /\ queried \in { Agents, Agents \ {NAgents} }
    /\ cells = RebuildFrom(clear(NewCells), 1, position)
    /\ snapshots = SnapshotsFrom(1, queried, position, velocity, preferred)
    /\ results = <<>>
    /\ written = 0
    /\ tickPc = "avoid"
    /\ LpIdle /\ LnIdle /\ HashIdle /\ GatherIdle /\ WorldIdle /\ HeadOnIdle /\ RespIdle /\ NeverIdle /\ DivIdle /\ SmoothIdle /\ SchedIdle /\ PairIdle

\* The buffer holds a result for the entity.
HasResult(res, entity) == \E j \in DOMAIN res : res[j][1] = entity

\* Phase 2: the closure on any snapshot not solved yet.
SolveAny ==
    /\ tickPc = "avoid"
    /\ \E k \in DOMAIN snapshots :
           /\ ~HasResult(results, snapshots[k][1])
           /\ results' = Append(results, <<snapshots[k][1], SolveAgent(cells, snapshots, k)>>)
    /\ UNCHANGED <<position, velocity, preferred, queried, snapshots, written,
                   tickPc>>
    /\ UNCHANGED <<lpVars, lnVars, cells, hVars, gVars, wVars, hoVars, rsVars, nyVars, dvVars, smVars, scVars, rcVars>>

OrderNext == SolveAny \/ WriteNext \/ AvoidanceReturn

SpecOrder == OrderInit /\ [][OrderNext]_vars

\* C13: whatever order the agents are solved in, once compute_avoidance has
\* returned every snapshotted agent's velocity is the value the closure
\* computes from the snapshots, the hash and the configuration alone.
C13_OrderIndependent ==
    tickPc = "done" =>
        \A k \in DOMAIN snapshots :
            velocity[snapshots[k][1]] = SolveAgent(cells, snapshots, k)

\* The second snapshot was solved before the first, both agents built lines
\* against each other, and the two were written different velocities.
C13_Witness ==
    /\ tickPc = "done" /\ Len(snapshots) = 2
    /\ results[1][1] = snapshots[2][1]
    /\ LinesOf(cells, snapshots, 1) # <<>> /\ LinesOf(cells, snapshots, 2) # <<>>
    /\ velocity[snapshots[1][1]] # velocity[snapshots[2][1]]
    /\ velocity[snapshots[1][1]] # snapshots[1][2].velocity

\* The entities compute_avoidance has written so far, in the order written.
WriteLog == [j \in 1 .. written |-> WriteTarget(results, snapshots, j)]

\* The number of writes to the entity.
WritesTo(e) == Cardinality({ j \in 1 .. written : WriteLog[j] = e })

\* The entities of the snapshots.
Snapshotted == { snapshots[k][1] : k \in DOMAIN snapshots }

\* Once compute_avoidance returned, every snapshotted agent was written once
\* and nobody else was written.
WrittenOnce ==
    /\ \A e \in Agents : WritesTo(e) <= 1 /\ (WritesTo(e) = 1 => e \in Snapshotted)
    /\ tickPc = "done" => \A e \in Snapshotted : WritesTo(e) = 1

\* A step that changes a velocity is one write of phase 3: every result has
\* been collected, and the only entity changed is the one logged.
WriteBackStep ==
    velocity' # velocity =>
        /\ tickPc = "avoid" /\ Len(results) = Len(snapshots)
        /\ written' = written + 1
        /\ \A e \in Agents :
               velocity'[e] # velocity[e] =>
                   e = WriteTarget(results, snapshots, written + 1) /\ e \in Snapshotted

\* C14: in a tick each snapshotted agent's velocity is written exactly once,
\* in the write-back phase, and no other entity's velocity is written.
C14_WrittenOnceInWriteBack == []WrittenOnce /\ [][WriteBackStep]_vars

\* Both agents were snapshotted and written; the velocity of each changed.
C14_Witness ==
    /\ tickPc = "done" /\ Len(snapshots) = 2 /\ written = 2
    /\ velocity[snapshots[1][1]] # snapshots[1][2].velocity
    /\ velocity[snapshots[2][1]] # snapshots[2][2].velocity

(***************************************************************************)
(* rebuild_spatial_hash over the frames of a game: between two rebuilds    *)
(* units are spawned, despawned and moved.                                 *)
(***************************************************************************)

\* Two spots in one cell, one in the cell to its left, one three cells away.
WorldPositions == { ZERO, <<3 * Scale, 0>>, <<-Scale, 0>>, <<50 * Scale, 0>> }

\* The game starts without units, with the hash of SpatialHash::new.
WorldInit ==
    /\ wAlive = {}
    /\ wPos = [e \in Agents |-> ZERO]
    /\ wPc = "changed"
    /\ cells = NewCells
    /\ LpIdle /\ LnIdle /\ HashIdle /\ TickIdle /\ GatherIdle /\ HeadOnIdle /\ RespIdle /\ NeverIdle /\ DivIdle /\ SmoothIdle /\ SchedIdle /\ PairIdle

\* spawn_unit
WorldSpawn ==
    /\ \E e \in Agents \ wAlive, p \in WorldPositions :
           /\ wAlive' = wAlive \cup {e}
           /\ wPos' = [wPos EXCEPT ![e] = p]
    /\ wPc' = "changed"
    /\ UNCHANGED <<lpVars, lnVars, cells, hVars, tickVars, gVars, hoVars, rsVars, nyVars, dvVars, smVars, scVars, rcVars>>

\* A dead unit is despawned.
WorldDespawn ==
    /\ \E e \in wAlive :
           /\ wAlive' = wAlive \ {e}
           /\ wPos' = [wPos EXCEPT ![e] = ZERO]
    /\ wPc' = "changed"
    /\ UNCHANGED <<lpVars, lnVars, cells, hVars, tickVars, gVars, hoVars, rsVars, nyVars, dvVars, smVars, scVars, rcVars>>

\* The physics step moves a unit.
WorldMove ==
    /\ \E e \in wAlive :
           \E p \in WorldPositions \ {wPos[e]} :
               wPos' = [wPos EXCEPT ![e] = p]
    /\ wPc' = "changed"
    /\ UNCHANGED <<wAlive>>
    /\ UNCHANGED <<lpVars, lnVars, cells, hVars, tickVars, gVars, hoVars, rsVars, nyVars, dvVars, smVars, scVars, rcVars>>

RebuildStartKeeping(cs) == cs

\* rebuild_spatial_hash begins with hash.clear().
RebuildStart(cs) == clear(cs)

\* rebuild_spatial_hash's loop over the units that exist, from unit e on.
RECURSIVE RebuildAlive(_, _, _, _)
RebuildAlive(cs, e, alive, pos) ==
    IF e > NAgents THEN cs
    ELSE IF e \in alive
         THEN RebuildAlive(insert(cs, NeighborDistance, e, pos[e]), e + 1, alive, pos)
         ELSE RebuildAlive(cs, e + 1, alive, pos)

\* rebuild_spatial_hash
WorldRebuild ==
    /\ cells' = RebuildAlive(RebuildStart(cells), 1, wAlive, wPos)
    /\ wPc' = "rebuilt"
    /\ UNCHANGED <<wAlive, wPos>>
    /\ UNCHANGED <<lpVars, lnVars, hVars, tickVars, gVars, hoVars, rsVars, nyVars, dvVars, smVars, scVars, rcVars>>

WorldNext == WorldSpawn \/ WorldDespawn \/ WorldMove \/ WorldRebuild

SpecWorld == WorldInit /\ [][WorldNext]_vars

\* The number of entries of the hash that name the entity.
EntriesOf(cs, e) ==
    Cardinality({ slot \in UNION { {c} \X DOMAIN cs[c] : c \in DOMAIN cs } :
                      cs[slot[1]][slot[2]] = e })

\* C16: right after rebuild_spatial_hash the hash holds each existing unit
\* exactly once, in the bucket of the cell of its current position, and no
\* entry for a unit that does not exist, whatever was spawned, despawned or
\* moved since the rebuild before.
C16_HashMatchesWorld ==
    wPc = "rebuilt" =>
        \A e \in Agents :
            IF e \in wAlive
            THEN /\ EntriesOf(cells, e) = 1
                 /\ Contains(Bucket(cells, cell_coords(NeighborDistance, wPos[e])), e)
            ELSE EntriesOf(cells, e) = 0

\* The hash was rebuilt after a unit left a cell it had been hashed in: the
\* bucket of that cell is still there, empty, and a unit exists elsewhere.
C16_Witness ==
    /\ wPc = "rebuilt"
    /\ wAlive # {}
    /\ \E c \in DOMAIN cells : cells[c] = <<>>

\* The cell of point q lies outside the cells a query at point p visits.
OutsideQueryRange(p, q) ==
    \E axis \in 1 .. 2 :
        \/ cell_coords(NeighborDistance, q)[axis]
               < cell_coords(NeighborDistance, VSub(p, <<NeighborDistance, NeighborDistance>>))[axis]
        \/ cell_coords(NeighborDistance, q)[axis]
               > cell_coords(NeighborDistance, VAdd(p, <<NeighborDistance, NeighborDistance>>))[axis]

\* Every other unit lies outside the cells the agent's query visits.
Isolated(e) == \A o \in Agents \ {e} : OutsideQueryRange(position[e], position[o])

\* C19: a unit whose cell lies outside the cells an agent's query visits is
\* not among the agent's candidates, and an agent all of whose fellow units
\* lie outside has exactly its own preferred velocity written.
C19_DistantUnitsNoAvoidance ==
    tickPc = "done" =>
        \A k \in DOMAIN snapshots :
            /\ \A o \in Agents :
                   OutsideQueryRange(snapshots[k][2].position, position[o])
                       => ~Contains(query_neighbors(cells, NeighborDistance, snapshots[k][2].position, NeighborDistance), o)
            /\ Isolated(snapshots[k][1])
                   => velocity[snapshots[k][1]] = snapshots[k][2].preferred

\* Two agents 500 px apart, moving toward each other: each was written its
\* preferred velocity, which differs from the velocity it had.
C19_Witness ==
    /\ tickPc = "done" /\ Len(snapshots) = 2
    /\ position[1] = ZERO /\ position[2] = <<50 * Scale, 0>>
    /\ preferred[1] = <<MoveSpeed, 0>> /\ preferred[2] = <<-MoveSpeed, 0>>
    /\ velocity[1] = preferred[1] /\ velocity[2] = preferred[2]
    /\ snapshots[1][2].velocity # preferred[1]
    /\ snapshots[2][2].velocity # preferred[2]

(***************************************************************************)
(* An agent with responsibility 0.0 whose preferred velocity is its        *)
(* current velocity, solved against one or two neighbours.                 *)
(***************************************************************************)

\* Velocities of magnitude at most max_speed: full speed ahead, two slanted
\* directions, and a slow advance.
NeverVelocities ==
    { <<MoveSpeed, 0>>, <<4990, 316>>, <<3 * Scale, 4 * Scale>>, <<Scale \div 2, 0>> }

NeverOtherPositions == { <<3 * Scale, 0>>, <<0, 3 * Scale>>, <<2 * Scale, 2 * Scale>> }

NeverOtherVelocities == { <<-MoveSpeed, 0>>, ZERO, <<0, -MoveSpeed>> }

NeverOthers ==
    { AgentSnapshot(p, v, v, UNIT_RADIUS, MoveSpeed, Responsibility) :
          p \in NeverOtherPositions, v \in NeverOtherVelocities }

NeverInit ==
    /\ \E v \in NeverVelocities :
           nyA = AgentSnapshot(ZERO, v, v, UNIT_RADIUS, MoveSpeed, 0)
    /\ \/ \E b \in NeverOthers : nyOthers = <<b>>
       \/ \E b \in NeverOthers, c \in NeverOthers :
              b.position # c.position /\ nyOthers = <<b, c>>
    /\ nyPc = "call"
    /\ nyLines = <<>>
    /\ nyWritten = ZERO
    /\ LpIdle /\ LnIdle /\ HashIdle /\ TickIdle /\ GatherIdle /\ WorldIdle /\ HeadOnIdle /\ RespIdle /\ DivIdle /\ SmoothIdle /\ SchedIdle /\ PairIdle
    /\ cells = <<>>

\* The lines of the agent against the neighbours k .. Len(others).
RECURSIVE LinesAmong(_, _, _)
LinesAmong(agent, others, k) ==
    IF k > Len(others) THEN <<>>
    ELSE LinesAgainst(compute_orca_line(agent, others[k], DEFAULT_TIME_HORIZON))
             \o LinesAmong(agent, others, k + 1)

\* The lines are built, the velocity is solved, smoothed and written.
NeverSolve ==
    /\ nyPc = "call"
    /\ nyLines' = LinesAmong(nyA, nyOthers, 1)
    /\ nyWritten' = Solved(nyA, LinesAmong(nyA, nyOthers, 1))
    /\ nyPc' = "solved"
    /\ UNCHANGED <<nyA, nyOthers>>
    /\ UNCHANGED <<lpVars, lnVars, cells, hVars, tickVars, gVars, wVars, hoVars, rsVars, dvVars, smVars, scVars, rcVars>>

NeverNext == NeverSolve

SpecNever == NeverInit /\ [][NeverNext]_vars

\* Every line built for the agent passes through its own velocity.
LinesThroughOwnVelocity == \A k \in DOMAIN nyLines : nyLines[k].point = nyA.velocity

\* C22 as stated: every line of an agent with responsibility 0.0 passes
\* through its current velocity, and the velocity written is the preferred
\* velocity unchanged.
C22_NeverYieldsExactly ==
    nyPc = "solved" => (LinesThroughOwnVelocity /\ nyWritten = nyA.preferred)

\* C22: every line of an agent with responsibility 0.0 passes through its
\* current velocity, the velocity solved is the preferred velocity, and the
\* velocity written differs from it by no more than the rounding of the
\* smoothing blend.
C22_NeverYieldsWithinRounding ==
    nyPc = "solved" =>
        /\ LinesThroughOwnVelocity
        /\ nyLines # <<>> =>
               compute_avoiding_velocity(nyA.preferred, nyA.max_speed, nyLines) = nyA.preferred
        /\ Abs(nyWritten[1] - nyA.preferred[1]) <= EPSILON
        /\ Abs(nyWritten[2] - nyA.preferred[2]) <= EPSILON

\* Two lines were built, through the agent's velocity, and the blend of
\* the velocity with itself came out one step off.
C22_Witness ==
    /\ nyPc = "solved" /\ Len(nyLines) = 2
    /\ LinesThroughOwnVelocity
    /\ nyWritten # nyA.preferred

(***************************************************************************)
(* The divisions executed by compute_orca_line and by the linear programs  *)
(* of compute_avoiding_velocity, for one agent among its neighbours.       *)
(***************************************************************************)

\* One executed division: the name of its divisor in the code and the value.
Divided(site, divisor) == { <<site, divisor>> }

CutoffDivisorsUnguarded(w_length) == Divided("w_length", w_length)

\* The cut-off circle branch: w / w_length after the test of w_length.
CutoffDivisors(w_length) ==
    IF w_length < EPSILON THEN {} ELSE Divided("w_length", w_length)

\* The branches of compute_orca_line: w / w_length or .. / dist_sq.
OrcaBranchDivisors(rel_pos, combined_radius_sq, dist_sq, w) ==
    IF NotOverlapping(dist_sq, combined_radius_sq)
    THEN IF OnCutoffCircle(Dot(w, rel_pos), combined_radius_sq, LengthSquared(w))
         THEN CutoffDivisors(Sqrt(LengthSquared(w)))
         ELSE Divided("dist_sq", dist_sq)
    ELSE {}

\* compute_orca_line: 1.0 / time_horizon, then the branches.
OrcaLineDivisors(a, b, time_horizon) ==
    Divided("time_horizon", time_horizon)
        \cup OrcaBranchDivisors(VSub(b.position, a.position),
                 Mul(a.radius + b.radius, a.radius + b.radius),
                 LengthSquared(VSub(b.position, a.position)),
                 VSub(VSub(a.velocity, b.velocity),
                      VScale(Div(Scale, time_horizon),
                             VSub(b.position, a.position))))

RECURSIVE LP1ClipDivisors(_, _, _, _, _)

LP1ClipCheckDivisors(lines, line_idx, k, t_left, t_right) ==
    IF t_left > t_right THEN {}
    ELSE LP1ClipDivisors(lines, line_idx, k + 1, t_left, t_right)

\* One prior line of linear_program_1: numerator / denominator after the
\* test of denominator.abs().
LP1PriorDivisors(lines, line_idx, k, t_left, t_right, denominator, numerator) ==
    IF Abs(denominator) <= EPSILON
    THEN IF numerator < 0 THEN {}
         ELSE LP1ClipDivisors(lines, line_idx, k + 1, t_left, t_right)
    ELSE Divided("denominator", denominator)
             \cup IF denominator >= 0
                  THEN LP1ClipCheckDivisors(lines, line_idx, k, t_left,
                           Min(t_right, Div(numerator, denominator)))
                  ELSE LP1ClipCheckDivisors(lines, line_idx, k,
                           Max(t_left, Div(numerator, denominator)), t_right)

LP1ClipDivisors(lines, line_idx, k, t_left, t_right) ==
    IF k >= line_idx THEN {}
    ELSE LP1PriorDivisors(lines, line_idx, k, t_left, t_right,
             det(lines[line_idx].direction, lines[k].direction),
             det(lines[k].direction,
                 VSub(lines[line_idx].point, lines[k].point)))

LP1IntervalDivisors(lines, line_idx, dot_product, discriminant) ==
    IF discriminant < 0 THEN {}
    ELSE LP1ClipDivisors(lines, line_idx, 1,
                         -dot_product - Sqrt(discriminant),
                         -dot_product + Sqrt(discriminant))

LP1FromDivisors(lines, line_idx, max_speed, dot_product) ==
    LP1IntervalDivisors(lines, line_idx, dot_product,
        MulAdd(dot_product, dot_product,
               MulAdd(max_speed, max_speed,
                      -LengthSquared(lines[line_idx].point))))

\* linear_program_1 on line line_idx.
LP1Divisors(lines, line_idx, max_speed) ==
    LP1FromDivisors(lines, line_idx, max_speed,
                    Dot(lines[line_idx].point, lines[line_idx].direction))

\* The initial candidate of linear_program_2_impl: normalize() divides by
\* the length of opt_velocity.
LP2SeedDivisors(opt_velocity, max_speed, direction_opt) ==
    IF ~direction_opt /\ LengthSquared(opt_velocity) > Mul(max_speed, max_speed)
    THEN Divided("length", Length(opt_velocity))
    ELSE {}

RECURSIVE LP2LoopDivisors(_, _, _, _, _, _)

LP2ContinueDivisors(lines, i, opt_velocity, max_speed, direction_opt, it) ==
    IF it.failed THEN {}
    ELSE LP2LoopDivisors(lines, i + 1, it.result, opt_velocity, max_speed,
                         direction_opt)

\* The loop of linear_program_2_impl from line i on.
LP2LoopDivisors(lines, i, result, opt_velocity, max_speed, direction_opt) ==
    IF i > Len(lines) THEN {}
    ELSE (IF det(lines[i].direction, VSub(lines[i].point, result)) > 0
          THEN LP1Divisors(lines, i, max_speed)
          ELSE {})
         \cup LP2ContinueDivisors(lines, i, opt_velocity, max_speed, direction_opt,
                  LP2Iter(lines, i, result, opt_velocity, max_speed, direction_opt))

LP2Divisors(lines, opt_velocity, max_speed, direction_opt) ==
    LP2SeedDivisors(opt_velocity, max_speed, direction_opt)
        \cup LP2LoopDivisors(lines, 1,
                 LP2Seed(opt_velocity, max_speed, direction_opt),
                 opt_velocity, max_speed, direction_opt)

\* The projection of linear_program_3 for the prior line j: .. / determinant
\* after the test of determinant.abs().
ProjectedDivisor(determinant) ==
    IF Abs(determinant) <= EPSILON THEN {}
    ELSE Divided("determinant", determinant)

RECURSIVE ProjectedDivisors(_, _, _)
ProjectedDivisors(lines, i, j) ==
    IF j >= i THEN {}
    ELSE ProjectedDivisor(det(lines[i].direction, lines[j].direction))
             \cup ProjectedDivisors(lines, i, j + 1)

RECURSIVE LP3LoopDivisors(_, _, _, _, _)

LP3ContinueDivisors(lines, i, max_speed, it) ==
    LP3LoopDivisors(lines, i + 1, it.result, it.distance, max_speed)

\* The loop of linear_program_3 from line i on.
LP3LoopDivisors(lines, i, result, distance, max_speed) ==
    IF i > Len(lines) THEN {}
    ELSE (IF det(lines[i].direction, VSub(lines[i].point, result)) <= distance
          THEN {}
          ELSE ProjectedDivisors(lines, i, 1)
                   \cup LP2Divisors(ProjectedLines(lines, i, 1),
                            <<-lines[i].direction[2], lines[i].direction[1]>>,
                            max_speed, TRUE))
         \cup LP3ContinueDivisors(lines, i, max_speed,
                  LP3Iter(lines, i, result, distance, max_speed))

CavFallbackDivisors(lines, max_speed, lp2) ==
    IF lp2.fail < Len(lines)
    THEN LP3LoopDivisors(lines, lp2.fail + 1, lp2.result, 0, max_speed)
    ELSE {}

\* compute_avoiding_velocity.
CavDivisors(opt_velocity, max_speed, lines) ==
    LP2Divisors(lines, opt_velocity, max_speed, FALSE)
        \cup CavFallbackDivisors(lines, max_speed,
                                 linear_program_2(lines, opt_velocity, max_speed))

\* compute_orca_line of the agent against the neighbours k .. Len(others).
RECURSIVE DivisorsAmong(_, _, _)
DivisorsAmong(agent, others, k) ==
    IF k > Len(others) THEN {}
    ELSE OrcaLineDivisors(agent, others[k], DEFAULT_TIME_HORIZON)
             \cup DivisorsAmong(agent, others, k + 1)

\* The agent: at rest or at full speed; wanting to stand still, to go at
\* full speed, or to go faster than it may.
DivVelocities == { ZERO, <<MoveSpeed, 0>>, <<0, -MoveSpeed>> }
DivPreferred == { ZERO, <<MoveSpeed, 0>>, <<2 * MoveSpeed, 0>> }

\* The neighbours: on the agent, 30 px away on either side, and 300 px
\* ahead; at rest, closing in from either side, or closing in one grid step
\* slower.
DivOtherPositions ==
    { ZERO, <<3 * Scale, 0>>, <<-3 * Scale, 0>>, <<30 * Scale, 0>> }
DivOtherVelocities ==
    { ZERO, <<-MoveSpeed, 0>>, <<MoveSpeed, 0>>, <<11 - MoveSpeed, 0>> }

DivOthers(radius) ==
    { AgentSnapshot(p, v, v, radius, MoveSpeed, Responsibility) :
          p \in DivOtherPositions, v \in DivOtherVelocities }

DivInit ==
    /\ \E v \in DivVelocities, pref \in DivPreferred, radius \in LineRadii :
           /\ dvA = AgentSnapshot(ZERO, v, pref, radius, MoveSpeed, Responsibility)
           /\ \/ \E b \in DivOthers(radius) : dvOthers = <<b>>
              \/ \E b \in DivOthers(radius), c \in DivOthers(radius) :
                     dvOthers = <<b, c>>
    /\ dvPc = "call"
    /\ dvLines = <<>>
    /\ dvDivisors = {}
    /\ LpIdle /\ LnIdle /\ HashIdle /\ TickIdle /\ GatherIdle /\ WorldIdle /\ HeadOnIdle /\ RespIdle /\ NeverIdle /\ SmoothIdle /\ SchedIdle /\ PairIdle
    /\ cells = <<>>

\* The lines are built and the velocity is solved.
DivSolve ==
    /\ dvPc = "call"
    /\ dvLines' = LinesAmong(dvA, dvOthers, 1)
    /\ dvDivisors' = DivisorsAmong(dvA, dvOthers, 1)
                         \cup CavDivisors(dvA.preferred, dvA.max_speed,
                                          LinesAmong(dvA, dvOthers, 1))
    /\ dvPc' = "solved"
    /\ UNCHANGED <<dvA, dvOthers>>
    /\ UNCHANGED <<lpVars, lnVars, cells, hVars, tickVars, gVars, wVars, hoVars, rsVars, nyVars, smVars, scVars, rcVars>>

DivNext == DivSolve

SpecDiv == DivInit /\ [][DivNext]_vars

DivSites == { d[1] : d \in dvDivisors }

\* C24: for every agent and neighbours the data model allows (zero radius,
\* identical positions, zero preferred velocity, zero relative velocity and
\* parallel lines among them), every division executed by
\* compute_orca_line and linear_program_1, 2 and 3 has a divisor other than
\* zero.
C24_NoZeroDivisor ==
    dvPc = "solved" => \A d \in dvDivisors : d[2] # 0

\* Two neighbours gave parallel lines that no velocity satisfies:
\* linear_program_1 and linear_program_3 met a zero determinant and did not
\* divide by it.
C24_Witness ==
    /\ dvPc = "solved"
    /\ Len(dvLines) = 2
    /\ det(dvLines[1].direction, dvLines[2].direction) = 0
    /\ linear_program_2(dvLines, dvA.preferred, dvA.max_speed).fail = 1
    /\ {"time_horizon", "dist_sq"} \subseteq DivSites
    /\ \A d \in dvDivisors : d[2] # 0

\* A solve divided at the sites of compute_orca_line, linear_program_1 and
\* linear_program_3.
C24_WitnessSites ==
    /\ dvPc = "solved"
    /\ {"time_horizon", "dist_sq", "w_length", "denominator", "determinant"}
           \subseteq DivSites

\* A solve divided by the length of a preferred velocity above max_speed.
C24_WitnessLength ==
    /\ dvPc = "solved"
    /\ "length" \in DivSites

(***************************************************************************)
(* The velocity smoothing of compute_avoidance, for every value of         *)
(* config.velocity_smoothing.                                              *)
(***************************************************************************)

\* velocity_smoothing: keep the old velocity, the default 0.85, other blends,
\* and the raw ORCA result.
SmoothFactors ==
    { 0, Scale \div 4, Scale \div 2, DEFAULT_VELOCITY_SMOOTHING, Scale }

\* The previous velocity of the agent and what it prefers now.
SmoothVelocities == { ZERO, <<MoveSpeed, 0>>, <<4990, 316>>, <<0, -MoveSpeed>> }
SmoothPreferred == { <<MoveSpeed, 0>>, <<4990, 316>>, ZERO }

\* The neighbour: ahead or to the side, at rest or closing in.
SmoothOthers ==
    { AgentSnapshot(p, v, v, UNIT_RADIUS, MoveSpeed, Responsibility) :
          p \in { <<3 * Scale, 0>>, <<2 * Scale, 2 * Scale>> },
          v \in { ZERO, <<-MoveSpeed, 0>> } }

SmoothInit ==
    /\ \E v \in SmoothVelocities, pref \in SmoothPreferred,
          resp \in { 0, Responsibility } :
           smA = AgentSnapshot(ZERO, v, pref, UNIT_RADIUS, MoveSpeed, resp)
    /\ smOther \in SmoothOthers
    /\ smSmoothing \in SmoothFactors
    /\ smPc = "call"
    /\ smLines = <<>>
    /\ smSolved = ZERO
    /\ smWritten = ZERO
    /\ LpIdle /\ LnIdle /\ HashIdle /\ TickIdle /\ GatherIdle /\ WorldIdle /\ HeadOnIdle /\ RespIdle /\ NeverIdle /\ DivIdle /\ SchedIdle /\ PairIdle
    /\ cells = <<>>

\* The closure of phase 2 from lines.is_empty() on, config.velocity_smoothing
\* given.
SolvedWith(agent, lines, velocity_smoothing) ==
    IF lines = <<>> THEN agent.preferred
    ELSE Lerp(agent.velocity,
              compute_avoiding_velocity(agent.preferred, agent.max_speed, lines),
              velocity_smoothing)

\* The lines are built, the velocity is solved, smoothed and written.
SmoothSolve ==
    /\ smPc = "call"
    /\ smLines' = LinesAgainst(compute_orca_line(smA, smOther, DEFAULT_TIME_HORIZON))
    /\ smSolved' = compute_avoiding_velocity(smA.preferred, smA.max_speed,
                       LinesAgainst(compute_orca_line(smA, smOther, DEFAULT_TIME_HORIZON)))
    /\ smWritten' = SolvedWith(smA,
                        LinesAgainst(compute_orca_line(smA, smOther, DEFAULT_TIME_HORIZON)),
                        smSmoothing)
    /\ smPc' = "written"
    /\ UNCHANGED <<smA, smOther, smSmoothing>>
    /\ UNCHANGED <<lpVars, lnVars, cells, hVars, tickVars, gVars, wVars, hoVars, rsVars, nyVars, dvVars, scVars, rcVars>>

SmoothNext == SmoothSolve

SpecSmooth == SmoothInit /\ [][SmoothNext]_vars

\* p lies on the segment from a to b, exactly.
OnSegment(p, a, b) ==
    /\ (p[1] - a[1]) * (b[2] - a[2]) = (p[2] - a[2]) * (b[1] - a[1])
    /\ (p[1] - a[1]) * (b[1] - a[1]) + (p[2] - a[2]) * (b[2] - a[2]) >= 0
    /\ (p[1] - b[1]) * (a[1] - b[1]) + (p[2] - b[2]) * (a[2] - b[2]) >= 0

\* Each coordinate of p is within one step of rounding of the coordinate of
\* a + s * (b - a).
NearBlend(p, a, b, s) ==
    \A i \in 1 .. 2 :
        Abs(p[i] * Scale - (a[i] * Scale + s * (b[i] - a[i]))) <= EPSILON * Scale

\* The smoothing at its two ends: 1 writes the solved velocity, 0 the
\* previous one.
SmoothEnds ==
    /\ smSmoothing = Scale => smWritten = smSolved
    /\ smSmoothing = 0 => smWritten = smA.velocity

\* C26 as stated: when a line was built the velocity written is
\* previous + velocity_smoothing * (solved - previous), the solved velocity
\* for smoothing 1, the previous one for 0, and a point of the segment
\* between the two for every smoothing in [0, 1].
C26_WrittenOnSegment ==
    (smPc = "written" /\ smLines # <<>>)
        => SmoothEnds /\ OnSegment(smWritten, smA.velocity, smSolved)

\* C26: when a line was built the velocity written is
\* previous * (1 - velocity_smoothing) + solved * velocity_smoothing, each
\* product rounded: exactly the solved velocity for smoothing 1, exactly the
\* previous one for 0, and for every smoothing in [0, 1] within one step of
\* rounding per coordinate of previous + smoothing * (solved - previous), a
\* point of the segment between the two.
C26_WrittenNearSegment ==
    (smPc = "written" /\ smLines # <<>>)
        => SmoothEnds /\ NearBlend(smWritten, smA.velocity, smSolved, smSmoothing)

\* With the default smoothing a velocity strictly between the previous and
\* the solved one was written, and it is not the exact blend.
C26_Witness ==
    /\ smPc = "written"
    /\ smLines # <<>>
    /\ smSmoothing = DEFAULT_VELOCITY_SMOOTHING
    /\ smSolved # smA.velocity
    /\ smWritten # smSolved /\ smWritten # smA.velocity
    /\ NearBlend(smWritten, smA.velocity, smSolved, smSmoothing)
    /\ ~OnSegment(smWritten, smA.velocity, smSolved)

(***************************************************************************)
(* The Movement chain in the Update schedule: unit_movement,               *)
(* rebuild_spatial_hash and compute_avoidance under run_if(gameplay_running).*)
(***************************************************************************)

\* Frames the schedule is run for.
MaxFrames == 3

GameStates == { "Loading", "MainMenu", "InGame" }
Menus == { "None", "Main", "Pause", "Victory", "Defeat" }

gameplay_runningInGame(game_state, menu) == game_state = "InGame"

\* The run condition of the gameplay systems.
gameplay_running(game_state, menu) == game_state = "InGame" /\ menu = "None"

\* (unit_movement, rebuild_spatial_hash, compute_avoidance)
MovementChain == <<"unit_movement", "rebuild_spatial_hash", "compute_avoidance">>

ChainReadyUnordered(ran, k) == TRUE

\* chain_ignore_deferred: system k starts once system k - 1 has finished.
ChainReady(ran, k) == k = 1 \/ Contains(ran, MovementChain[k - 1])

SchedInit ==
    /\ scGame = "Loading"
    /\ scMenu = "None"
    /\ scFrame = 0
    /\ scPc = "transition"
    /\ scActive = {}
    /\ scRan = <<>>
    /\ scWrote = <<0, 0>>
    /\ scRead = <<0, 0>>
    /\ LpIdle /\ LnIdle /\ HashIdle /\ TickIdle /\ GatherIdle /\ WorldIdle /\ HeadOnIdle /\ RespIdle /\ NeverIdle /\ DivIdle /\ SmoothIdle /\ PairIdle
    /\ cells = <<>>

\* A frame begins: the StateTransition schedule applies a pending NextState
\* of either state, before Update.
SchedTransition ==
    /\ scPc = "transition"
    /\ scFrame < MaxFrames
    /\ scGame' \in GameStates
    /\ scMenu' \in Menus
    /\ scFrame' = scFrame + 1
    /\ scRan' = <<>>
    /\ scPc' = "condition"
    /\ UNCHANGED <<scActive, scWrote, scRead>>
    /\ UNCHANGED <<lpVars, lnVars, cells, hVars, tickVars, gVars, wVars, hoVars, rsVars, nyVars, dvVars, smVars, rcVars>>

\* run_if(gameplay_running), evaluated for the three systems together.
SchedCondition ==
    /\ scPc = "condition"
    /\ scPc' = IF gameplay_running(scGame, scMenu) THEN "run" ELSE "end"
    /\ UNCHANGED <<scGame, scMenu, scFrame, scActive, scRan, scWrote, scRead>>
    /\ UNCHANGED <<lpVars, lnVars, cells, hVars, tickVars, gVars, wVars, hoVars, rsVars, nyVars, dvVars, smVars, rcVars>>

\* What compute_avoidance reads when it starts: PreferredVelocity and the
\* SpatialHash as last written.
ReadBy(system, wrote, read) ==
    IF system = "compute_avoidance" THEN wrote ELSE read

\* What a system has written when it finishes, in frame f.
WrittenBy(system, wrote, f) ==
    IF system = "unit_movement" THEN <<f, wrote[2]>>
    ELSE IF system = "rebuild_spatial_hash" THEN <<wrote[1], f>>
    ELSE wrote

\* The executor starts a system of the chain that is ready.
SchedBegin ==
    /\ scPc = "run"
    /\ \E k \in DOMAIN MovementChain :
           /\ MovementChain[k] \notin scActive
           /\ ~Contains(scRan, MovementChain[k])
           /\ ChainReady(scRan, k)
           /\ scActive' = scActive \cup {MovementChain[k]}
           /\ scRead' = ReadBy(MovementChain[k], scWrote, scRead)
    /\ UNCHANGED <<scGame, scMenu, scFrame, scPc, scRan, scWrote>>
    /\ UNCHANGED <<lpVars, lnVars, cells, hVars, tickVars, gVars, wVars, hoVars, rsVars, nyVars, dvVars, smVars, rcVars>>

\* A system that is executing finishes.
SchedFinish ==
    /\ scPc = "run"
    /\ \E system \in scActive :
           /\ scActive' = scActive \ {system}
           /\ scRan' = Append(scRan, system)
           /\ scWrote' = WrittenBy(system, scWrote, scFrame)
    /\ UNCHANGED <<scGame, scMenu, scFrame, scPc, scRead>>
    /\ UNCHANGED <<lpVars, lnVars, cells, hVars, tickVars, gVars, wVars, hoVars, rsVars, nyVars, dvVars, smVars, rcVars>>

\* Every system of the chain has run: the Movement set is over.
SchedDone ==
    /\ scPc = "run"
    /\ Len(scRan) = Len(MovementChain)
    /\ scPc' = "end"
    /\ UNCHANGED <<scGame, scMenu, scFrame, scActive, scRan, scWrote, scRead>>
    /\ UNCHANGED <<lpVars, lnVars, cells, hVars, tickVars, gVars, wVars, hoVars, rsVars, nyVars, dvVars, smVars, rcVars>>

\* The frame ends.
SchedEnd ==
    /\ scPc = "end"
    /\ scPc' = "transition"
    /\ UNCHANGED <<scGame, scMenu, scFrame, scActive, scRan, scWrote, scRead>>
    /\ UNCHANGED <<lpVars, lnVars, cells, hVars, tickVars, gVars, wVars, hoVars, rsVars, nyVars, dvVars, smVars, rcVars>>

SchedNext ==
    \/ SchedTransition
    \/ SchedCondition
    \/ SchedBegin
    \/ SchedFinish
    \/ SchedDone
    \/ SchedEnd

SpecSched == SchedInit /\ [][SchedNext]_vars

\* Gameplay is running: GameState::InGame and no menu open.
InGameNoMenu == scGame = "InGame" /\ scMenu = "None"

\* The systems that have started in this frame, in order.
StartedInOrder ==
    /\ \A k \in DOMAIN scRan : scRan[k] = MovementChain[k]
    /\ \A system \in scActive :
           Len(scRan) < Len(MovementChain) /\ system = MovementChain[Len(scRan) + 1]

\* C28: in a frame in which gameplay is running unit_movement runs before
\* rebuild_spatial_hash, which runs before compute_avoidance, and all three
\* have run when the frame ends; in a frame in which gameplay is not running
\* none of them runs; compute_avoidance reads preferred velocities and a hash
\* written in the same frame, and rebuild_spatial_hash is not executing while
\* compute_avoidance is.
C28_MovementChainOrdered ==
    /\ StartedInOrder
    /\ (scPc = "end" /\ InGameNoMenu) => scRan = MovementChain
    /\ (scPc \in {"run", "end"} /\ ~InGameNoMenu) => (scRan = <<>> /\ scActive = {})
    /\ ("compute_avoidance" \in scActive \/ Contains(scRan, "compute_avoidance"))
           => scRead = <<scFrame, scFrame>>
    /\ ~({"rebuild_spatial_hash", "compute_avoidance"} \subseteq scActive)

\* The third frame, with gameplay running, has run the three systems, and
\* compute_avoidance read what the other two wrote in that frame.
C28_Witness ==
    /\ scPc = "end"
    /\ scFrame = 3
    /\ InGameNoMenu
    /\ scRan = MovementChain
    /\ scRead = <<3, 3>>
    /\ scWrote = <<3, 3>>

(***************************************************************************)
(* compute_orca_line on the two orders of a pair of one snapshot.          *)
(***************************************************************************)

\* The first agent stands at the origin; the second 30 px ahead, 30 px ahead
\* and 1 px aside, on a diagonal, 90 px ahead, or 30 px below.
PairPositions ==
    { <<3 * Scale, 0>>, <<3 * Scale, 100>>, <<2 * Scale, 2 * Scale>>,
      <<9 * Scale, 0>>, <<0, -3 * Scale>> }

PairVelocitiesA == { <<MoveSpeed, 0>>, <<Scale, 0>>, ZERO, <<0, MoveSpeed>> }
PairVelocitiesB == { <<-MoveSpeed, 0>>, <<-Scale, 0>>, ZERO, <<3 * Scale, 4 * Scale>> }

PairResponsibilities == { 0, Responsibility, Scale }

PairInit ==
    /\ \E va \in PairVelocitiesA, resp \in PairResponsibilities :
           rcA = AgentSnapshot(ZERO, va, va, UNIT_RADIUS, MoveSpeed, resp)
    /\ \E pb \in PairPositions, vb \in PairVelocitiesB, resp \in PairResponsibilities :
           rcB = AgentSnapshot(pb, vb, vb, UNIT_RADIUS, MoveSpeed, resp)
    /\ rcPc = "call"
    /\ rcAB = NoLine
    /\ rcBA = NoLine
    /\ LpIdle /\ LnIdle /\ HashIdle /\ TickIdle /\ GatherIdle /\ WorldIdle /\ HeadOnIdle /\ RespIdle /\ NeverIdle /\ DivIdle /\ SmoothIdle /\ SchedIdle
    /\ cells = <<>>

\* Each agent builds its line against the other.
PairCompute ==
    /\ rcPc = "call"
    /\ rcAB' = compute_orca_line(rcA, rcB, DEFAULT_TIME_HORIZON)
    /\ rcBA' = compute_orca_line(rcB, rcA, DEFAULT_TIME_HORIZON)
    /\ rcPc' = "done"
    /\ UNCHANGED <<rcA, rcB>>
    /\ UNCHANGED <<lpVars, lnVars, cells, hVars, tickVars, gVars, wVars, hoVars, rsVars, nyVars, dvVars, smVars, scVars>>

PairNext == PairCompute

SpecPair == PairInit /\ [][PairNext]_vars

\* w of compute_orca_line(a, b).
PairW(a, b) ==
    VSub(VSub(a.velocity, b.velocity),
         VScale(Div(Scale, DEFAULT_TIME_HORIZON), VSub(b.position, a.position)))

\* The branch of compute_orca_line, from rel_pos, combined_radius_sq and w.
ConeFeature(rel_pos, combined_radius_sq, w) ==
    IF ~NotOverlapping(LengthSquared(rel_pos), combined_radius_sq) THEN "overlap"
    ELSE IF OnCutoffCircle(Dot(w, rel_pos), combined_radius_sq, LengthSquared(w))
         THEN "cutoff"
    ELSE IF det(rel_pos, w) > 0 THEN "left"
    ELSE "right"

\* The branch compute_orca_line(a, b) takes.
FeatureOf(a, b) ==
    ConeFeature(VSub(b.position, a.position),
                Mul(a.radius + b.radius, a.radius + b.radius), PairW(a, b))

\* u of compute_orca_line(a, b), from the branch and the direction of the
\* line returned.
PairU(a, b, feature, direction) ==
    IF feature = "cutoff"
    THEN VScale(MulAdd(a.radius + b.radius, Div(Scale, DEFAULT_TIME_HORIZON),
                       -Sqrt(LengthSquared(PairW(a, b)))),
                <<-direction[2], direction[1]>>)
    ELSE VSub(VScale(Dot(VSub(a.velocity, b.velocity), direction), direction),
              VSub(a.velocity, b.velocity))

\* The two lines are reciprocal for the vector u.
ReciprocalFor(u) ==
    /\ rcBA.direction = VNeg(rcAB.direction)
    /\ rcAB.point = VAdd(rcA.velocity, VScale(rcA.responsibility, u))
    /\ rcBA.point = VAdd(rcB.velocity, VScale(rcB.responsibility, VNeg(u)))

\* Both orders take the same branch and give reciprocal lines, or none.
PairReciprocal ==
    /\ FeatureOf(rcA, rcB) = FeatureOf(rcB, rcA)
    /\ rcAB.some = rcBA.some
    /\ rcAB.some => ReciprocalFor(PairU(rcA, rcB, FeatureOf(rcA, rcB), rcAB.direction))

\* The pair is exactly head-on: det(rel_pos, w) = 0.
PairHeadOn == det(VSub(rcB.position, rcA.position), PairW(rcA, rcB)) = 0

\* C30 as stated: for a non-overlapping pair the two orders select the same
\* cone feature, the directions are exact opposites, the points are offset
\* from the own velocities by responsibility_a * u and -responsibility_b * u
\* for the same u, and in an exactly head-on pair both take the right leg.
C30_ReciprocalHeadOnRight ==
    (rcPc = "done" /\ FeatureOf(rcA, rcB) # "overlap")
        => /\ PairReciprocal
           /\ PairHeadOn => (FeatureOf(rcA, rcB) = "right" /\ FeatureOf(rcB, rcA) = "right")

\* C30: for a non-overlapping pair the two orders select the same cone
\* feature, the directions are exact opposites, the points are offset from
\* the own velocities by responsibility_a * u and -responsibility_b * u for
\* the same u, and in an exactly head-on pair both take the right leg unless
\* w lies on the cut-off circle (the pair is not due to collide within the
\* time horizon), where both take the cut-off circle.
C30_ReciprocalHeadOnRightOrCutoff ==
    (rcPc = "done" /\ FeatureOf(rcA, rcB) # "overlap")
        => /\ PairReciprocal
           /\ PairHeadOn => /\ FeatureOf(rcA, rcB) \in {"right", "cutoff"}
                            /\ FeatureOf(rcB, rcA) = FeatureOf(rcA, rcB)
                            /\ FeatureOf(rcA, rcB) = "cutoff"
                                   <=> Dot(PairW(rcA, rcB), VSub(rcB.position, rcA.position)) < 0

\* Two agents 30 px apart at full speed towards each other, with different
\* responsibilities: both took the right leg and the lines are reciprocal
\* with different offsets.
C30_Witness ==
    /\ rcPc = "done"
    /\ rcB.position = <<3 * Scale, 0>>
    /\ rcA.velocity = <<MoveSpeed, 0>> /\ rcB.velocity = <<-MoveSpeed, 0>>
    /\ rcA.responsibility = Scale /\ rcB.responsibility = Responsibility
    /\ PairHeadOn
    /\ FeatureOf(rcA, rcB) = "right" /\ FeatureOf(rcB, rcA) = "right"
    /\ rcAB.some /\ rcBA.some
    /\ rcBA.direction = VNeg(rcAB.direction)
    /\ VSub(rcAB.point, rcA.velocity) # VNeg(VSub(rcBA.point, rcB.velocity))

\* Two agents 90 px apart creeping towards each other: exactly head-on, and
\* both took the cut-off circle.
C30_WitnessCutoff ==
    /\ rcPc = "done"
    /\ PairHeadOn
    /\ FeatureOf(rcA, rcB) = "cutoff" /\ FeatureOf(rcB, rcA) = "cutoff"
    /\ rcAB.some /\ rcBA.some

\* A pair off the axis took the left leg in both orders.
C30_WitnessLeft ==
    /\ rcPc = "done"
    /\ FeatureOf(rcA, rcB) = "left" /\ FeatureOf(rcB, rcA) = "left"
    /\ rcAB.some /\ rcBA.some

\* The candidates the hash returns for the agent in slot k.
CandidatesOf(cs, snaps, k) ==
    query_neighbors(cs, NeighborDistance, snaps[k][2].position, NeighborDistance)

\* C2: after compute_avoidance every written velocity has magnitude at most
\* the agent's max_speed (plus the tolerance), whatever the previous
\* velocity, the preferred velocity and the neighbours.
C2_WrittenWithinMaxSpeed ==
    tickPc = "done" =>
        \A k \in DOMAIN results :
            WithinDisc(velocity[results[k][1]],
                       snapshots[k][2].max_speed + Tolerance)

\* C4: no velocity is written before every agent's solve has completed;
\* until then the snapshot is the state of the world, and the results the
\* tick ends with are the solves of the snapshot.
C4_WriteAfterAllSolves ==
    /\ written > 0 => Len(results) = Len(snapshots)
    /\ (tickPc = "avoid" /\ Len(results) < Len(snapshots)) =>
           snapshots = SnapshotsFrom(1, queried, position, velocity, preferred)
    /\ tickPc = "done" =>
           \A k \in DOMAIN results :
               results[k] = <<snapshots[k][1], SolveAgent(cells, snapshots, k)>>

\* The first agent's velocity has been changed by the write-back, and the
\* second agent's lines were built against the first.
C4_Witness ==
    /\ tickPc = "avoid"
    /\ written = 1
    /\ Len(results) = 2
    /\ velocity[results[1][1]] # snapshots[1][2].velocity
    /\ LinesOf(cells, snapshots, 2) # <<>>

\* C5: an agent with non-zero preferred velocity for which no line is built
\* has exactly its preferred velocity written, whatever its previous
\* velocity.
C5_NoLinesKeepsPreferred ==
    tickPc = "done" =>
        \A k \in DOMAIN results :
            (snapshots[k][2].preferred # ZERO /\ LinesOf(cells, snapshots, k) = <<>>)
                => velocity[results[k][1]] = snapshots[k][2].preferred

\* An agent moving otherwise than it prefers, with a candidate other than
\* itself but no line, was written its preferred velocity.
C5_Witness ==
    /\ tickPc = "done"
    /\ \E k \in DOMAIN results :
           /\ snapshots[k][2].preferred # ZERO
           /\ snapshots[k][2].velocity # ZERO
           /\ snapshots[k][2].velocity # snapshots[k][2].preferred
           /\ Len(CandidatesOf(cells, snapshots, k)) > 1
           /\ LinesOf(cells, snapshots, k) = <<>>
           /\ velocity[results[k][1]] = snapshots[k][2].preferred

\* The zero velocity violates one of the lines.
ZeroViolates(lines) ==
    \E j \in DOMAIN lines : det(lines[j].direction, VSub(lines[j].point, ZERO)) > 0

=============================================================================
